---------------------------- MODULE Spec2Model ----------------------------
(* A model of the LinkedIn export pipeline: linkedin_data.py (loading,      *)
(* seniority classification, URN extraction, post enrichment) and the       *)
(* aggregation section of build_dashboard.py.                               *)
(*                                                                          *)
(* Text is a sequence of one-character strings, so that substring search,   *)
(* lower-casing, stripping, splitting and percent-decoding are computed     *)
(* character by character as the Python code computes them.  A table cell   *)
(* is a record with a kind: "str" (text in s), "nan" (pandas' missing       *)
(* value), "none" (Python None), "int" (a number in n), "ts" (a pandas    *)
(* Timestamp: year y, month m, day d, hour H), "nat" (pandas' NaT).          *)
EXTENDS Integers, Sequences, FiniteSets, TLC

VARIABLES
    pc,               \* position of the build_dashboard script
    fs,               \* the files of the directory EXPORT_DIR: file name -> content
    conn_df,          \* build_dashboard.py:22
    shares_df,        \* build_dashboard.py:23
    comments_df,      \* build_dashboard.py:24
    posts_list_full,  \* build_dashboard.py:41
    posts_list,       \* build_dashboard.py:44-56
    seniority_data,   \* build_dashboard.py:95
    day_data,         \* build_dashboard.py:129
    word_count_data,  \* build_dashboard.py:170
    position,         \* argument of a direct call of classify_seniority
    seniority,        \* its result
    url,              \* argument of a direct call of extract_urn
    urn,              \* its result
    urn_quoted,       \* result of extract_urn on the percent-encoded url
    urn_again,        \* result of extract_urn on its own result
    messages_df,      \* result of a direct call of load_messages
    owner_name,       \* linkedin_data.py:191: the owner build_conversations is called with
    convos,           \* linkedin_data.py:234-235: what build_conversations returns
    base_dir,         \* the project directory: its entries, in listing order
    clock,            \* what datetime.now() returns
    EXPORT_DIR,       \* build_dashboard.py:13
    error,            \* the exception that ended the run
    reactions_df,     \* build_dashboard.py:25
    profile_df,       \* build_dashboard.py:26
    profile_name,     \* build_dashboard.py:29, 32
    profile_headline, \* build_dashboard.py:30, 33
    all_connections,  \* build_dashboard.py:67-79
    unique_companies, \* build_dashboard.py:82
    unique_years,     \* build_dashboard.py:84
    companies_data,   \* build_dashboard.py:91
    growth_data,      \* build_dashboard.py:100-104
    yearly_data,      \* build_dashboard.py:109
    activity_data,    \* build_dashboard.py:118-123
    hour_data,        \* build_dashboard.py:133
    clusters_data,    \* build_dashboard.py:140
    positions_data,   \* build_dashboard.py:143
    post_type_data,   \* build_dashboard.py:150
    posts_monthly_data, \* build_dashboard.py:155
    cutoff,           \* build_dashboard.py:173
    dormant,          \* build_dashboard.py:174
    dormant_list,     \* build_dashboard.py:175-184
    stats,            \* build_dashboard.py:188-200
    html,             \* build_dashboard.py:208: the data the page embeds
    output,           \* the file OUTPUT_PATH names
    connFilters,      \* build_dashboard.py:691, the report's script
    connSearch,       \* the value of the input connSearch
    filter_tags,      \* the filter-tag elements of connFilterBar
    conn_data,        \* build_dashboard.py:769-782: the rows before the cap
    conn_table,       \* build_dashboard.py:787-795: the rows of connTableWrap
    conn_more,        \* build_dashboard.py:795: the row 'Showing 500 of N'
    conn_count,       \* build_dashboard.py:784: the text of connResultCount
    postTypeFilter,   \* build_dashboard.py:616, the report's script
    postSearch,       \* the value of the input postSearch
    postPills,        \* build_dashboard.py:618-620: the pills of postTypePills
    posts_shown,      \* build_dashboard.py:628-647: the posts of postsList
    post_count,       \* build_dashboard.py:629: the text of postResultCount
    nav_active,       \* build_dashboard.py:340-348: the links of nav with class active
    section_active    \* build_dashboard.py:355-475: the sections with class active

vars == <<pc, fs, conn_df, shares_df, comments_df, posts_list_full,
          posts_list, seniority_data, day_data, post_type_data,
          posts_monthly_data, word_count_data, position, seniority, url, urn,
          urn_quoted, urn_again, messages_df, owner_name, convos, base_dir, clock, EXPORT_DIR,
          error, reactions_df, profile_df, profile_name, profile_headline,
          all_connections, unique_companies, unique_years, companies_data,
          growth_data, yearly_data, activity_data, hour_data, clusters_data,
          positions_data, cutoff, dormant, dormant_list, stats, html, output,
          connFilters, connSearch, filter_tags, conn_data, conn_table,
          conn_more, conn_count, postTypeFilter, postSearch, postPills,
          posts_shown, post_count, nav_active, section_active>>

\* the variables of the direct calls
callVars == <<position, seniority, url, urn, urn_quoted, urn_again, messages_df,
              owner_name, convos>>

\* the variables of the call of build_conversations
convoVars == <<owner_name, convos>>

\* the variables of the script build_dashboard.py and of the report's script
pipelineVars == <<pc, fs, conn_df, shares_df, comments_df, posts_list_full,
                  posts_list, seniority_data, day_data, post_type_data,
                  posts_monthly_data, word_count_data, base_dir, clock,
                  EXPORT_DIR, error, reactions_df, profile_df, profile_name,
                  profile_headline, all_connections, unique_companies,
                  unique_years, companies_data, growth_data, yearly_data,
                  activity_data, hour_data, clusters_data, positions_data,
                  cutoff, dormant, dormant_list, stats, html, output,
                  connFilters, connSearch, filter_tags, conn_data,
                  conn_table, conn_more, conn_count, postTypeFilter,
                  postSearch, postPills, posts_shown, post_count, nav_active,
                  section_active>>

\* the variables of the report's script
reportVars == <<connFilters, connSearch, filter_tags, conn_data, conn_table,
               conn_more, conn_count, postTypeFilter, postSearch, postPills,
               posts_shown, post_count, nav_active, section_active>>

\* the post view and the navigation of the report
postViewVars == <<postTypeFilter, postSearch, postPills, posts_shown, post_count>>
navVars == <<nav_active, section_active>>

-----------------------------------------------------------------------------
(* Cells and text *)

NaN == [kind |-> "nan"]
None == [kind |-> "none"]
Str(s) == [kind |-> "str", s |-> s]
Num(n) == [kind |-> "int", n |-> n]
NaT == [kind |-> "nat"]
Timestamp(y, m, d, H) == [kind |-> "ts", y |-> y, m |-> m, d |-> d, H |-> H]

\* pd.notna: NaN, None and NaT are missing
notna(v) == v.kind \notin {"nan", "none", "nat"}

isinstance_str(v) == v.kind = "str"

UpperCase == <<"A", "B", "C", "D", "E", "F", "G", "H", "I", "J", "K", "L", "M",
               "N", "O", "P", "Q", "R", "S", "T", "U", "V", "W", "X", "Y", "Z">>

LowerCase == <<"a", "b", "c", "d", "e", "f", "g", "h", "i", "j", "k", "l", "m",
               "n", "o", "p", "q", "r", "s", "t", "u", "v", "w", "x", "y", "z">>

Digits == <<"0", "1", "2", "3", "4", "5", "6", "7", "8", "9">>

Range(f) == {f[i] : i \in DOMAIN f}

\* the positions of a sequence, in order
Positions(s) == [i \in DOMAIN s |-> i]

\* str.lower() on one character
lower_char(c) ==
    IF c \in Range(UpperCase)
    THEN LowerCase[CHOOSE i \in DOMAIN UpperCase : UpperCase[i] = c]
    ELSE c

\* str.lower()
lower(s) == [i \in DOMAIN s |-> lower_char(s[i])]

\* Python's  kw in s  for two texts
Contains(kw, s) ==
    \E i \in 1..(Len(s) - Len(kw) + 1) : SubSeq(s, i, i + Len(kw) - 1) = kw

\* any(x in pos for x in kws)
AnyIn(kws, pos) == \E k \in kws : Contains(k, pos)

RECURSIVE IntText(_)
\* str(n) for n >= 0
IntText(n) == IF n < 10 THEN <<Digits[n + 1]>>
              ELSE IntText(n \div 10) \o <<Digits[(n % 10) + 1]>>

\* str(v): the text Python prints for a cell
str(v) ==
    CASE v.kind = "str" -> v.s
      [] v.kind = "nan" -> <<"n", "a", "n">>
      [] v.kind = "none" -> <<"N", "o", "n", "e">>
      [] v.kind = "int" -> IntText(v.n)

Whitespace == {" ", "\t", "\n", "\r"}

\* str.strip(): without leading and trailing whitespace
strip(s) ==
    LET keep == {i \in DOMAIN s : s[i] \notin Whitespace}
    IN  IF keep = {} THEN <<>>
        ELSE SubSeq(s, CHOOSE i \in keep : \A j \in keep : i <= j,
                       CHOOSE i \in keep : \A j \in keep : i >= j)

-----------------------------------------------------------------------------
(* classify_seniority, linkedin_data.py:32-51 *)

CLevelKeywords == {
    <<"c", "e", "o">>, <<"c", "t", "o">>, <<"c", "f", "o">>, <<"c", "o", "o">>,
    <<"c", "r", "o">>, <<"c", "h", "i", "e", "f">>,
    <<"f", "o", "u", "n", "d", "e", "r">>,
    <<"c", "o", "-", "f", "o", "u", "n", "d", "e", "r">>,
    <<"o", "w", "n", "e", "r">>, <<"p", "a", "r", "t", "n", "e", "r">>}

VPKeywords == {
    <<"v", "p">>,
    <<"v", "i", "c", "e", " ", "p", "r", "e", "s", "i", "d", "e", "n", "t">>}

HeadKeywords == {<<"h", "e", "a", "d", " ", "o", "f">>, <<"h", "e", "a", "d", " ">>}

ManagerKeywords == {
    <<"m", "a", "n", "a", "g", "e", "r">>, <<"l", "e", "a", "d">>,
    <<"t", "e", "a", "m", " ", "l", "e", "a", "d">>}

SeniorKeywords == {
    <<"s", "e", "n", "i", "o", "r">>, <<"s", "r", ".">>, <<"s", "r", " ">>}

JuniorKeywords == {
    <<"j", "u", "n", "i", "o", "r">>, <<"j", "r", ".">>,
    <<"i", "n", "t", "e", "r", "n">>, <<"t", "r", "a", "i", "n", "e", "e">>,
    <<"a", "s", "s", "o", "c", "i", "a", "t", "e">>}

DirectorKeyword == <<"d", "i", "r", "e", "c", "t", "o", "r">>

\* A slip in the rule order: the C-level keywords tested before "director"
classify_seniority_clevel_first(p) ==
    LET pos == lower(str(p))
    IN  IF AnyIn(CLevelKeywords, pos) THEN "C-Level / Founder"
        ELSE IF Contains(DirectorKeyword, pos) THEN "Director"
        ELSE IF AnyIn(VPKeywords, pos) THEN "VP"
        ELSE IF AnyIn(HeadKeywords, pos) THEN "Head of"
        ELSE IF AnyIn(ManagerKeywords, pos) THEN "Manager / Lead"
        ELSE IF AnyIn(SeniorKeywords, pos) THEN "Senior IC"
        ELSE IF AnyIn(JuniorKeywords, pos) THEN "Junior / Associate"
        ELSE "IC / Specialist"

\* A slip in the fall-through: no else branch, Python returns None
classify_seniority_no_else(p) ==
    LET pos == lower(str(p))
    IN  IF Contains(DirectorKeyword, pos) THEN "Director"
        ELSE IF AnyIn(CLevelKeywords, pos) THEN "C-Level / Founder"
        ELSE IF AnyIn(VPKeywords, pos) THEN "VP"
        ELSE IF AnyIn(HeadKeywords, pos) THEN "Head of"
        ELSE IF AnyIn(ManagerKeywords, pos) THEN "Manager / Lead"
        ELSE IF AnyIn(SeniorKeywords, pos) THEN "Senior IC"
        ELSE IF AnyIn(JuniorKeywords, pos) THEN "Junior / Associate"
        ELSE "None"

classify_seniority(p) ==
    LET pos == lower(str(p))
    IN  IF Contains(DirectorKeyword, pos) THEN "Director"
        ELSE IF AnyIn(CLevelKeywords, pos) THEN "C-Level / Founder"
        ELSE IF AnyIn(VPKeywords, pos) THEN "VP"
        ELSE IF AnyIn(HeadKeywords, pos) THEN "Head of"
        ELSE IF AnyIn(ManagerKeywords, pos) THEN "Manager / Lead"
        ELSE IF AnyIn(SeniorKeywords, pos) THEN "Senior IC"
        ELSE IF AnyIn(JuniorKeywords, pos) THEN "Junior / Associate"
        ELSE "IC / Specialist"

-----------------------------------------------------------------------------
(* extract_urn, linkedin_data.py:54-60 *)

\* The printable ASCII characters, codes 32..126 (code 96 is written <btick>)
Ascii == <<
    " ", "!", "\"", "#", "$", "%", "&", "'", "(", ")", "*", "+",
    ",", "-", ".", "/", "0", "1", "2", "3", "4", "5", "6", "7",
    "8", "9", ":", ";", "<", "=", ">", "?", "@", "A", "B", "C",
    "D", "E", "F", "G", "H", "I", "J", "K", "L", "M", "N", "O",
    "P", "Q", "R", "S", "T", "U", "V", "W", "X", "Y", "Z", "[",
    "\\", "]", "^", "_", "<btick>", "a", "b", "c", "d", "e", "f", "g",
    "h", "i", "j", "k", "l", "m", "n", "o", "p", "q", "r", "s",
    "t", "u", "v", "w", "x", "y", "z", "{", "|", "}", "~">>

HexDigits == <<"0", "1", "2", "3", "4", "5", "6", "7", "8", "9",
               "A", "B", "C", "D", "E", "F">>

HexLower == <<"0", "1", "2", "3", "4", "5", "6", "7", "8", "9",
              "a", "b", "c", "d", "e", "f">>

IsHex(c) == c \in Range(HexDigits) \cup Range(HexLower)

HexValue(c) ==
    IF c \in Range(HexDigits)
    THEN (CHOOSE i \in DOMAIN HexDigits : HexDigits[i] = c) - 1
    ELSE (CHOOSE i \in DOMAIN HexLower : HexLower[i] = c) - 1

(* The character a decoded byte stands for.  A control character is written
   <ctl>.  A byte of 128 or more that is part of no valid UTF-8 sequence
   decodes to U+FFFD (unquote decodes with errors=replace), written <U+FFFD>;
   the inputs of the model never put a UTF-8 lead byte before a continuation
   byte. *)
Chr(b) ==
    IF b \in 32..126 THEN Ascii[b - 31]
    ELSE IF b < 128 THEN "<ctl>"
    ELSE "<U+FFFD>"

\* urllib.parse.unquote from position i on: %XY with two hex digits becomes
\* the character of that byte, anything else is kept.  The two digits of an
\* escape are no %, so every % followed by two hex digits starts an escape.
unquote_from(s, i) ==
    LET escapes == {e \in i..(Len(s) - 2) :
                       s[e] = "%" /\ IsHex(s[e + 1]) /\ IsHex(s[e + 2])}
        kept == SelectSeq(Positions(s),
                          LAMBDA j : j >= i /\ j - 1 \notin escapes /\ j - 2 \notin escapes)
    IN  [k \in DOMAIN kept |->
            IF kept[k] \in escapes
            THEN Chr(16 * HexValue(s[kept[k] + 1]) + HexValue(s[kept[k] + 2]))
            ELSE s[kept[k]]]

unquote(s) == unquote_from(s, 1)

UrnPrefixes == {
    <<"u", "r", "n", ":", "l", "i", ":", "s", "h", "a", "r", "e", ":">>,
    <<"u", "r", "n", ":", "l", "i", ":", "a", "c", "t", "i", "v", "i", "t", "y", ":">>,
    <<"u", "r", "n", ":", "l", "i", ":", "u", "g", "c", "P", "o", "s", "t", ":">>}

IsDigit(c) == c \in Range(Digits)

\* text s has w at position i
HasAt(s, i, w) == i + Len(w) - 1 <= Len(s) /\ SubSeq(s, i, i + Len(w) - 1) = w

\* the pattern urn:li:(?:share|activity|ugcPost):(\d+) matches at position i
UrnMatchAt(s, i) ==
    \E w \in UrnPrefixes :
        HasAt(s, i, w) /\ i + Len(w) <= Len(s) /\ IsDigit(s[i + Len(w)])

\* m.group(1) of the match at position i: \d+ is greedy
UrnGroup(s, i) ==
    LET w == CHOOSE x \in UrnPrefixes : HasAt(s, i, x)
        b == i + Len(w)
        e == CHOOSE k \in b..Len(s) :
                 /\ \A j \in b..k : IsDigit(s[j])
                 /\ (k = Len(s) \/ ~IsDigit(s[k + 1]))
    IN  SubSeq(s, b, e)

\* re.search: the leftmost position where the pattern matches, 0 for no match
UrnSearch(s) ==
    IF \E i \in 1..Len(s) : UrnMatchAt(s, i)
    THEN CHOOSE i \in 1..Len(s) :
             UrnMatchAt(s, i) /\ \A j \in 1..(i - 1) : ~UrnMatchAt(s, j)
    ELSE 0

\* A slip: the URL is searched as given, without unquote
extract_urn_no_unquote(u) ==
    IF ~isinstance_str(u) THEN None
    ELSE LET m == UrnSearch(u.s)
         IN  IF m = 0 THEN None ELSE Str(UrnGroup(u.s, m))

\* A slip: the URL is decoded twice
extract_urn_decoded_twice(u) ==
    IF ~isinstance_str(u) THEN None
    ELSE LET decoded == unquote(unquote(u.s))
             m == UrnSearch(decoded)
         IN  IF m = 0 THEN None ELSE Str(UrnGroup(decoded, m))

extract_urn(u) ==
    IF ~isinstance_str(u) THEN None
    ELSE LET decoded == unquote(u.s)
             m == UrnSearch(decoded)
         IN  IF m = 0 THEN None ELSE Str(UrnGroup(decoded, m))

-----------------------------------------------------------------------------
(* Timestamps: strftime and day_name *)

\* n as decimal text, zero-padded to width w (strftime's %Y, %m, %d)
Pad(n, w) ==
    LET t == IntText(n)
    IN  [i \in 1..(w - Len(t)) |-> "0"] \o t

\* Timestamp.strftime("%Y-%m-%d")
strftime_Ymd(t) == Pad(t.y, 4) \o <<"-">> \o Pad(t.m, 2) \o <<"-">> \o Pad(t.d, 2)

\* days from 1970-01-01 to the civil date y-m-d (proleptic Gregorian)
DaysFromCivil(y, m, d) ==
    LET yy == IF m <= 2 THEN y - 1 ELSE y
        era == yy \div 400
        yoe == yy - era * 400
        mp == IF m > 2 THEN m - 3 ELSE m + 9
        doy == (153 * mp + 2) \div 5 + d - 1
        doe == yoe * 365 + yoe \div 4 - yoe \div 100 + doy
    IN  era * 146097 + doe - 719468

day_order == <<"Monday", "Tuesday", "Wednesday", "Thursday", "Friday",
               "Saturday", "Sunday">>

\* Timestamp.strftime("%A") and Series.dt.day_name(): 1970-01-01 was a Thursday
day_name(t) == day_order[((DaysFromCivil(t.y, t.m, t.d) + 3) % 7) + 1]

-----------------------------------------------------------------------------
(* Tables.  A file of the export directory is NoFile or a table; a table is  *)
(* [columns |-> set of column names, rows |-> sequence of rows], a row a     *)
(* function from the column names to cells.  A Date cell of a file is a      *)
(* Timestamp when pandas can parse its text (the cell then stands for that   *)
(* text), a "str" cell when it cannot, NaN when it is empty.                 *)

NoFile == [exists |-> FALSE]
File(columns, rows) == [exists |-> TRUE, columns |-> columns, rows |-> rows]
DataFrame(columns, rows) == [columns |-> columns, rows |-> rows]

\* pd.to_datetime(..., errors="coerce") on one cell
to_datetime(c) == IF c.kind = "ts" THEN c ELSE NaT

\* Series.get / dict.get with the default None
get(r, c) == IF c \in DOMAIN r THEN r[c] ELSE None

\* r.get(c, "")
get_or_empty(r, c) == IF c \in DOMAIN r THEN r[c] ELSE Str(<<>>)

NotSpecified == <<"N", "o", "t", " ", "S", "p", "e", "c", "i", "f", "i", "e", "d">>

\* df[col].fillna("Not Specified").str.strip() on one cell
fillna_strip(c) == IF notna(c) THEN Str(strip(c.s)) ELSE Str(strip(NotSpecified))

NameColumns == {"Company", "Position", "First Name", "Last Name"}

\* linkedin_data.py:68-72 on one row
load_connections_row(r) ==
    LET a == [c \in DOMAIN r |->
                 IF c = "Connected On" THEN to_datetime(r[c])
                 ELSE IF c \in NameColumns THEN fillna_strip(r[c])
                 ELSE r[c]]
    IN  a @@ ("Full Name" :> Str(a["First Name"].s \o <<" ">> \o a["Last Name"].s))
          @@ ("Seniority" :> classify_seniority(a["Position"]))

\* linkedin_data.py:63-73
load_connections(f) ==
    DataFrame(f.columns \cup {"Full Name", "Seniority"},
              [i \in DOMAIN f.rows |-> load_connections_row(f.rows[i])])

ParseDate(r) == [c \in DOMAIN r |-> IF c = "Date" THEN to_datetime(r[c]) ELSE r[c]]

SharesColumns == {"Date", "ShareCommentary", "ShareLink", "SharedUrl", "MediaUrl",
                  "Visibility"}

\* a table whose Date column has the dtype pd.to_datetime gave it
DatedFrame(columns, rows, dtype) ==
    [columns |-> columns, rows |-> rows, Date |-> dtype]

datetime64 == "datetime64[ns]"

\* A slip: the empty table returned without the to_datetime line, its Date
\* column left with the dtype object
load_shares_untyped(f) ==
    IF ~f.exists THEN DatedFrame(SharesColumns, <<>>, "object")
    ELSE DatedFrame(f.columns, [i \in DOMAIN f.rows |-> ParseDate(f.rows[i])], datetime64)

\* linkedin_data.py:76-86
load_shares(f) ==
    IF ~f.exists THEN DatedFrame(SharesColumns, <<>>, datetime64)
    ELSE DatedFrame(f.columns, [i \in DOMAIN f.rows |-> ParseDate(f.rows[i])], datetime64)

CommentsColumns == {"Date", "Message", "Link"}

\* linkedin_data.py:89-99
load_comments(f) ==
    IF ~f.exists THEN DatedFrame(CommentsColumns, <<>>, datetime64)
    ELSE DatedFrame(f.columns, [i \in DOMAIN f.rows |-> ParseDate(f.rows[i])], datetime64)

ReactionsColumns == {"Date", "Type", "Link"}

\* linkedin_data.py:102-112
load_reactions(f) ==
    IF ~f.exists THEN DatedFrame(ReactionsColumns, <<>>, datetime64)
    ELSE DatedFrame(f.columns, [i \in DOMAIN f.rows |-> ParseDate(f.rows[i])], datetime64)

\* linkedin_data.py:115-122: None for a missing Profile.csv
load_profile(f) ==
    IF ~f.exists THEN None ELSE DataFrame(f.columns, f.rows)

\* linkedin_data.py:187 on one row
ParseDATE(r) == [c \in DOMAIN r |-> IF c = "DATE" THEN to_datetime(r[c]) ELSE r[c]]

\* linkedin_data.py:180-188: pd.DataFrame() has no column and no row
load_messages(f) ==
    IF ~f.exists THEN DataFrame({}, <<>>)
    ELSE DataFrame(f.columns, [i \in DOMAIN f.rows |-> ParseDATE(f.rows[i])])

\* build_dashboard.py:27-33: name and headline of the report
profile_of(prof) ==
    IF prof # None /\ Len(prof.rows) > 0
    THEN LET p == prof.rows[1]
         IN  [name |-> strip(str(get_or_empty(p, "First Name")) \o <<" ">>
                             \o str(get_or_empty(p, "Last Name"))),
              headline |-> IF notna(get(p, "Headline"))
                           THEN str(get_or_empty(p, "Headline")) ELSE <<>>]
    ELSE [name |-> <<"Y", "o", "u", "r", " ", "N", "e", "t", "w", "o", "r", "k">>, headline |-> <<>>]

-----------------------------------------------------------------------------
(* find_export_dir, linkedin_data.py:13-29.  The project directory is a      *)
(* sequence of entries in listing order: name (a text), place ("base" for   *)
(* the script's directory, "data exports" for that subfolder), isdir, mtime  *)
(* and, for a directory, its files.                                          *)

search_dirs == <<"base", "data exports">>

\* the patterns of line 18 without their final *, which matches any text
patterns == <<
    <<"C", "o", "m", "p", "l", "e", "t", "e", "_", "L", "i", "n", "k", "e", "d", "I", "n", "D", "a", "t", "a", "E", "x", "p", "o", "r", "t", "_">>,
    <<"B", "a", "s", "i", "c", "_", "L", "i", "n", "k", "e", "d", "I", "n", "D", "a", "t", "a", "E", "x", "p", "o", "r", "t", "_">>>>

\* glob.glob(os.path.join(d, p)): the entries of place d whose name starts
\* with the pattern's text, in listing order
glob(entries, d, p) ==
    SelectSeq(Positions(entries),
              LAMBDA i : entries[i].place = d /\ HasAt(entries[i].name, 1, p))

\* linkedin_data.py:19-24: the candidates, in the order of the two loops,
\* directories only
candidates_of(entries) ==
    SelectSeq(glob(entries, search_dirs[1], patterns[1])
                  \o glob(entries, search_dirs[1], patterns[2])
                  \o glob(entries, search_dirs[2], patterns[1])
                  \o glob(entries, search_dirs[2], patterns[2]),
              LAMBDA i : entries[i].isdir)

\* max(candidates, key=os.path.getmtime): the first of the greatest mtime
max_mtime(entries, candidates) ==
    candidates[CHOOSE k \in DOMAIN candidates :
                  /\ \A j \in DOMAIN candidates :
                        entries[candidates[j]].mtime <= entries[candidates[k]].mtime
                  /\ \A j \in 1..(k - 1) :
                        entries[candidates[j]].mtime < entries[candidates[k]].mtime]

NoExportFound == [type |-> "FileNotFoundError",
                  message |-> "No LinkedIn export found. Place your LinkedInDataExport folder in the project directory or 'data exports' subfolder."]

\* A slip: the greatest mtime taken over every match, files included
find_export_dir_any(entries) ==
    LET c == glob(entries, search_dirs[1], patterns[1])
                 \o glob(entries, search_dirs[1], patterns[2])
                 \o glob(entries, search_dirs[2], patterns[1])
                 \o glob(entries, search_dirs[2], patterns[2])
    IN  IF c # <<>> THEN [raised |-> FALSE, dir |-> max_mtime(entries, c)]
        ELSE [raised |-> TRUE, error |-> NoExportFound]

\* linkedin_data.py:13-29: the index of the chosen entry, or the error raised
find_export_dir(entries) ==
    LET c == candidates_of(entries)
    IN  IF c # <<>> THEN [raised |-> FALSE, dir |-> max_mtime(entries, c)]
        ELSE [raised |-> TRUE, error |-> NoExportFound]

-----------------------------------------------------------------------------
(* enrich_posts, linkedin_data.py:125-177 *)

Quote == "\""

\* the number of quote characters directly before position i
QuotesBefore(s, i) ==
    LET stop == {j \in 1..(i - 1) : s[j] # Quote}
    IN  IF stop = {} THEN i - 1
        ELSE i - 1 - (CHOOSE j \in stop : \A k \in stop : k <= j)

(* str.replace of two quote characters by one: the scan goes left to right and
   the replaced pairs do not overlap, so of a run of quote characters the
   second, fourth, ... is dropped and every other character is kept *)
replace_quotes(s) ==
    LET kept == SelectSeq(Positions(s),
                          LAMBDA i : s[i] # Quote \/ QuotesBefore(s, i) % 2 = 0)
    IN  [k \in DOMAIN kept |-> s[kept[k]]]

\* str.strip('"'): without leading and trailing quote characters
strip_quotes(s) ==
    LET keep == {i \in DOMAIN s : s[i] # Quote}
    IN  IF keep = {} THEN <<>>
        ELSE SubSeq(s, CHOOSE i \in keep : \A j \in keep : i <= j,
                       CHOOSE i \in keep : \A j \in keep : i >= j)

\* str.split(): the maximal runs of non-whitespace, in order
split(s) ==
    LET starts == SelectSeq(Positions(s),
                            LAMBDA i : s[i] \notin Whitespace
                                       /\ (i = 1 \/ s[i - 1] \in Whitespace))
        ends == SelectSeq(Positions(s),
                          LAMBDA i : s[i] \notin Whitespace
                                     /\ (i = Len(s) \/ s[i + 1] \in Whitespace))
    IN  [k \in DOMAIN starts |-> SubSeq(s, starts[k], ends[k])]

\* linkedin_data.py:141-142
clean_commentary(r) ==
    LET raw == IF notna(get(r, "ShareCommentary"))
               THEN str(get_or_empty(r, "ShareCommentary")) ELSE <<>>
    IN  strip_quotes(strip(replace_quotes(raw)))

\* linkedin_data.py:143
word_count_of(commentary) == IF commentary # <<>> THEN Len(split(commentary)) ELSE 0

\* linkedin_data.py:147
has_media_of(r) ==
    IF notna(get(r, "MediaUrl")) THEN strip(str(get_or_empty(r, "MediaUrl"))) # <<>>
    ELSE FALSE

\* linkedin_data.py:146, 148
has_link_of(r) ==
    LET shared_url == IF notna(get(r, "SharedUrl"))
                      THEN str(get_or_empty(r, "SharedUrl")) ELSE <<>>
    IN  strip(shared_url) # <<>>

\* A slip: the long-text threshold tested with >=
post_type_of_ge(has_media, has_link, word_count) ==
    IF has_media THEN "Media"
    ELSE IF has_link THEN "Link Share"
    ELSE IF word_count >= 100 THEN "Long Text"
    ELSE IF word_count > 0 THEN "Short Text"
    ELSE "Repost"

\* A slip: the empty commentary tested before the link check
post_type_of_repost_first(has_media, has_link, word_count) ==
    IF has_media THEN "Media"
    ELSE IF word_count = 0 THEN "Repost"
    ELSE IF has_link THEN "Link Share"
    ELSE IF word_count > 100 THEN "Long Text"
    ELSE "Short Text"

\* linkedin_data.py:151-160
post_type_of(has_media, has_link, word_count) ==
    IF has_media THEN "Media"
    ELSE IF has_link THEN "Link Share"
    ELSE IF word_count > 100 THEN "Long Text"
    ELSE IF word_count > 0 THEN "Short Text"
    ELSE "Repost"

\* shares_df.dropna(subset=["Date"])
dropna_Date(rows) == SelectSeq(rows, LAMBDA r : notna(r["Date"]))

\* linkedin_data.py:128-131: the urn column of shares_clean
share_urn(columns, r) ==
    IF "ShareLink" \in columns THEN extract_urn(r["ShareLink"]) ELSE None

\* A slip: the comments grouped by their Link, not by the extracted urn
comments_per_post_by_link(comments) ==
    IF "Link" \in comments.columns
    THEN LET links == [i \in DOMAIN comments.rows |-> comments.rows[i]["Link"]]
             keys == {links[i].s : i \in {j \in DOMAIN links : notna(links[j])}}
         IN  [k \in keys |->
                 Cardinality({i \in DOMAIN links : notna(links[i]) /\ links[i].s = k})]
    ELSE <<>>

\* linkedin_data.py:133-137: groupby("urn").size().to_dict(); a null key is in
\* no group.  The dict is a function from the urn texts to their counts.
comments_per_post_of(comments) ==
    IF "Link" \in comments.columns
    THEN LET urns == [i \in DOMAIN comments.rows |-> extract_urn(comments.rows[i]["Link"])]
             keys == {urns[i].s : i \in {j \in DOMAIN urns : notna(urns[j])}}
         IN  [k \in keys |->
                 Cardinality({i \in DOMAIN urns : notna(urns[i]) /\ urns[i].s = k})]
    ELSE <<>>

\* linkedin_data.py:162: comments_per_post.get(urn, 0) if urn else 0
comment_count_of(comments_per_post, u) ==
    IF notna(u) /\ u.s # <<>>
    THEN IF u.s \in DOMAIN comments_per_post THEN comments_per_post[u.s] ELSE 0
    ELSE 0

\* A slip: the ellipsis appended from 200 characters on
preview_of_ge(commentary) ==
    SubSeq(commentary, 1, IF Len(commentary) < 200 THEN Len(commentary) ELSE 200)
    \o (IF Len(commentary) >= 200 THEN <<".", ".", ".">> ELSE <<>>)

\* linkedin_data.py:169
preview_of(commentary) ==
    SubSeq(commentary, 1, IF Len(commentary) < 200 THEN Len(commentary) ELSE 200)
    \o (IF Len(commentary) > 200 THEN <<".", ".", ".">> ELSE <<>>)

\* linkedin_data.py:140-175: the record of one row of shares_clean
enrich_row(columns, r, comments_per_post) ==
    LET commentary == clean_commentary(r)
        word_count == word_count_of(commentary)
        u == share_urn(columns, r)
        link == get_or_empty(r, "ShareLink")
        visibility == IF notna(get(r, "Visibility"))
                      THEN str(get_or_empty(r, "Visibility")) ELSE <<>>
    IN  [date |-> IF notna(r["Date"]) THEN strftime_Ymd(r["Date"]) ELSE <<>>,
         day |-> IF notna(r["Date"]) THEN day_name(r["Date"]) ELSE "",
         hour |-> IF notna(r["Date"]) THEN r["Date"].H ELSE 0,
         content |-> commentary,
         preview |-> preview_of(commentary),
         wordCount |-> word_count,
         type |-> post_type_of(has_media_of(r), has_link_of(r), word_count),
         comments |-> comment_count_of(comments_per_post, u),
         link |-> IF isinstance_str(link) THEN link.s ELSE <<>>,
         visibility |-> visibility]

\* A slip: every row is enriched, the rows without a timestamp included
enrich_posts_keep_all(shares, comments) ==
    LET cpp == comments_per_post_of(comments)
    IN  [i \in DOMAIN shares.rows |-> enrich_row(shares.columns, shares.rows[i], cpp)]

\* linkedin_data.py:125-177
enrich_posts(shares, comments) ==
    LET shares_clean == dropna_Date(shares.rows)
        cpp == comments_per_post_of(comments)
    IN  [i \in DOMAIN shares_clean |-> enrich_row(shares.columns, shares_clean[i], cpp)]

-----------------------------------------------------------------------------
(* The chart data of build_dashboard.py *)

seniority_order == <<"C-Level / Founder", "VP", "Director", "Head of",
                     "Manager / Lead", "Senior IC", "IC / Specialist",
                     "Junior / Associate">>

\* A slip: value_counts() without the reindex, only the tiers that occur
CountsPresentOnly(order, column) ==
    LET present == SelectSeq(order, LAMBDA l : \E j \in DOMAIN column : column[j] = l)
    IN  [labels |-> present,
         values |-> [i \in DOMAIN present |->
                        Cardinality({j \in DOMAIN column : column[j] = present[i]})]]

\* Series.value_counts().reindex(order).fillna(0).astype(int) as labels/values
CountsInOrder(order, column) ==
    [labels |-> order,
     values |-> [i \in DOMAIN order |->
                    Cardinality({j \in DOMAIN column : column[j] = order[i]})]]

\* build_dashboard.py:93-95
seniority_data_of(conn) ==
    CountsInOrder(seniority_order, [i \in DOMAIN conn.rows |-> conn.rows[i]["Seniority"]])

\* build_dashboard.py:125-129
day_data_of(shares) ==
    LET sc == dropna_Date(shares.rows)
    IN  CountsInOrder(day_order, [i \in DOMAIN sc |-> day_name(sc[i]["Date"])])

wc_labels == <<"0 (Repost)", "1-50", "51-100", "101-200", "201-300", "300+">>

\* A slip: the upper bounds tested with <
wc_bucket_strict(w) ==
    IF w = 0 THEN "0 (Repost)"
    ELSE IF w < 50 THEN "1-50"
    ELSE IF w < 100 THEN "51-100"
    ELSE IF w < 200 THEN "101-200"
    ELSE IF w < 300 THEN "201-300"
    ELSE "300+"

\* build_dashboard.py:164-169: the bucket a word count is added to
wc_bucket(w) ==
    IF w = 0 THEN "0 (Repost)"
    ELSE IF w <= 50 THEN "1-50"
    ELSE IF w <= 100 THEN "51-100"
    ELSE IF w <= 200 THEN "101-200"
    ELSE IF w <= 300 THEN "201-300"
    ELSE "300+"

\* build_dashboard.py:161-170
word_count_data_of(posts) ==
    [labels |-> wc_labels,
     values |-> [i \in DOMAIN wc_labels |->
                    Cardinality({j \in DOMAIN posts :
                                    wc_bucket(posts[j].wordCount) = wc_labels[i]})]]

\* build_dashboard.py:44-56: the post without its content
preview_only(p) ==
    [date |-> p.date, day |-> p.day, hour |-> p.hour, preview |-> p.preview,
     wordCount |-> p.wordCount, type |-> p.type, comments |-> p.comments,
     link |-> p.link, visibility |-> p.visibility]

-----------------------------------------------------------------------------
(* Sorting.  Series.sort_values and DataFrame.sort_values sort with numpy's  *)
(* default kind, quicksort, which is not stable: rows of equal key come out  *)
(* in an order the build decides.  An order is a sequence of positions.      *)

\* the order is a permutation of the positions of k with non-decreasing keys
IsSortedOrder(k, p) ==
    /\ \A i, j \in DOMAIN p : i # j => p[i] # p[j]
    /\ \A i \in 1..(Len(p) - 1) : k[p[i]] <= k[p[i + 1]]

\* the one order of keys that are all different: position i comes after the
\* positions of smaller key
RankOrder(k) ==
    LET rank == [i \in DOMAIN k |-> 1 + Cardinality({j \in DOMAIN k : k[j] < k[i]})]
    IN  [r \in DOMAIN k |-> CHOOSE i \in DOMAIN k : rank[i] = r]

\* A slip for the tie order: a stable sort, the one order that keeps rows of
\* equal key in their order
StableOrder(k) ==
    LET rank == [i \in DOMAIN k |->
                    1 + Cardinality({j \in DOMAIN k :
                                        k[j] < k[i] \/ (k[j] = k[i] /\ j < i)})]
    IN  [r \in DOMAIN k |-> CHOOSE i \in DOMAIN k : rank[i] = r]

\* the orders argsort(kind="quicksort") can give for the keys k
argsort(k) ==
    IF Cardinality(Range(k)) = Len(k) THEN {RankOrder(k)}
    ELSE {p \in [DOMAIN k -> DOMAIN k] : IsSortedOrder(k, p)}

\* the first n elements of a sequence: head(n), [:n], slice(0, n)
head(q, n) == SubSeq(q, 1, IF Len(q) < n THEN Len(q) ELSE n)

-----------------------------------------------------------------------------
(* The connection aggregates of build_dashboard.py *)

\* the column col of a table, as a sequence of cells
column(df, col) == [i \in DOMAIN df.rows |-> df.rows[i][col]]

\* conn_df.dropna(subset=["Connected On"])
dropna_Connected(rows) == SelectSeq(rows, LAMBDA r : notna(r["Connected On"]))

\* the hours from 1970-01-01 00:00 to a timestamp: the order of timestamps
hours_of(t) == DaysFromCivil(t.y, t.m, t.d) * 24 + t.H

\* the month of a timestamp, counted from year 0
month_of(t) == t.y * 12 + (t.m - 1)

\* strftime("%Y-%m") of the end of the month numbered mi
strftime_Ym(mi) == Pad(mi \div 12, 4) \o <<"-">> \o Pad((mi % 12) + 1, 2)

\* dropna(...).set_index(col).resample("ME").size() on a sequence of
\* timestamps: one bin for every month from the earliest to the latest, the
\* months without a row included, and the number of rows of each
resample_ME_size(ts) ==
    IF ts = <<>> THEN <<>>
    ELSE LET months == {month_of(ts[i]) : i \in DOMAIN ts}
             lo == CHOOSE m \in months : \A x \in months : m <= x
             hi == CHOOSE m \in months : \A x \in months : m >= x
         IN  [k \in 1..(hi - lo + 1) |->
                 [Month |-> lo + k - 1,
                  size |-> Cardinality({i \in DOMAIN ts : month_of(ts[i]) = lo + k - 1})]]

RECURSIVE cumsum(_)
\* Series.cumsum(): the running sum
cumsum(q) ==
    IF q = <<>> THEN <<>>
    ELSE LET before == cumsum(SubSeq(q, 1, Len(q) - 1))
         IN  Append(before, (IF before = <<>> THEN 0 ELSE before[Len(before)]) + q[Len(q)])

\* A slip: the cumulative column holds the monthly counts, not their sum
growth_data_no_cumsum(conn) ==
    LET rows == dropna_Connected(conn.rows)
        monthly == resample_ME_size([i \in DOMAIN rows |-> rows[i]["Connected On"]])
        New == [k \in DOMAIN monthly |-> monthly[k].size]
    IN  [labels |-> [k \in DOMAIN monthly |-> strftime_Ym(monthly[k].Month)],
         new |-> New,
         cumulative |-> New]

\* build_dashboard.py:97-104
growth_data_of(conn) ==
    LET rows == dropna_Connected(conn.rows)
        monthly == resample_ME_size([i \in DOMAIN rows |-> rows[i]["Connected On"]])
        New == [k \in DOMAIN monthly |-> monthly[k].size]
    IN  [labels |-> [k \in DOMAIN monthly |-> strftime_Ym(monthly[k].Month)],
         new |-> New,
         cumulative |-> cumsum(New)]

\* the elements of a set of integers, ascending
Ascending(S) ==
    [r \in 1..Cardinality(S) |-> CHOOSE x \in S : Cardinality({y \in S : y < x}) = r - 1]

\* build_dashboard.py:106-109: groupby("Year").size(), the years that occur,
\* ascending; the labels are the years as text
yearly_data_of(conn) ==
    LET yearly == dropna_Connected(conn.rows)
        Year == [i \in DOMAIN yearly |-> yearly[i]["Connected On"].y]
        years == Ascending(Range(Year))
    IN  [labels |-> [k \in DOMAIN years |-> IntText(years[k])],
         values |-> [k \in DOMAIN years |->
                        Cardinality({i \in DOMAIN Year : Year[i] = years[k]})]]

\* the timestamps of the Date column, without the missing ones
dates_of(df) ==
    LET rows == dropna_Date(df.rows) IN [i \in DOMAIN rows |-> rows[i]["Date"]]

\* the size of the bin of month m, 0 (fillna) when the series has no such bin
bin_size(series, m) ==
    IF \E k \in DOMAIN series : series[k].Month = m
    THEN series[CHOOSE k \in DOMAIN series : series[k].Month = m].size
    ELSE 0

\* build_dashboard.py:111-123: the outer merge of the three monthly series on
\* Month, missing counts filled with 0, sorted by Month
activity_data_of(shares, comments, reactions) ==
    LET shares_m == resample_ME_size(dates_of(shares))
        comments_m == resample_ME_size(dates_of(comments))
        reactions_m == resample_ME_size(dates_of(reactions))
        Month == Ascending({shares_m[k].Month : k \in DOMAIN shares_m}
                           \cup {comments_m[k].Month : k \in DOMAIN comments_m}
                           \cup {reactions_m[k].Month : k \in DOMAIN reactions_m})
    IN  [labels |-> [k \in DOMAIN Month |-> strftime_Ym(Month[k])],
         posts |-> [k \in DOMAIN Month |-> bin_size(shares_m, Month[k])],
         comments |-> [k \in DOMAIN Month |-> bin_size(comments_m, Month[k])],
         reactions |-> [k \in DOMAIN Month |-> bin_size(reactions_m, Month[k])]]

\* build_dashboard.py:131-133: value_counts().sort_index(), the hours that
\* occur, ascending; the labels are h:00
hour_data_of(shares) ==
    LET sc == dropna_Date(shares.rows)
        Hour == [i \in DOMAIN sc |-> sc[i]["Date"].H]
        hours == Ascending(Range(Hour))
    IN  [labels |-> [k \in DOMAIN hours |-> IntText(hours[k]) \o <<":", "0", "0">>],
         values |-> [k \in DOMAIN hours |->
                        Cardinality({i \in DOMAIN Hour : Hour[i] = hours[k]})]]

\* the values of a column in the order of their first occurrence
unique(col) ==
    LET firsts == SelectSeq(Positions(col),
                            LAMBDA i : \A j \in 1..(i - 1) : col[j] # col[i])
    IN  [k \in DOMAIN firsts |-> col[firsts[k]]]

\* labels and values in the order p of the distinct values keys of col
counts_in(col, keys, p) ==
    [labels |-> [r \in DOMAIN p |-> keys[p[r]]],
     values |-> [r \in DOMAIN p |->
                    Cardinality({i \in DOMAIN col : col[i] = keys[p[r]]})]]

\* A slip for the tie order: value_counts sorted with a stable sort
value_counts_stable(col) ==
    LET keys == unique(col)
        neg == [k \in DOMAIN keys |-> 0 - Cardinality({i \in DOMAIN col : col[i] = keys[k]})]
    IN  {counts_in(col, keys, StableOrder(neg))}

\* Series.value_counts() of a column without missing values: the distinct
\* values are taken in the order of their first occurrence and then sorted by
\* descending count with sort_values; the results the sort can give
value_counts(col) ==
    LET keys == unique(col)
        neg == [k \in DOMAIN keys |-> 0 - Cardinality({i \in DOMAIN col : col[i] = keys[k]})]
    IN  {counts_in(col, keys, p) : p \in argsort(neg)}

\* the number of labels of top_companies and top_positions
TopN == 20

\* A slip: the first TopN distinct values, not the TopN most frequent
top_by_occurrence(col) ==
    LET keys == unique(col)
    IN  {[labels |-> head(keys, TopN),
          values |-> [r \in DOMAIN head(keys, TopN) |->
                         Cardinality({i \in DOMAIN col : col[i] = keys[r]})]]}

\* build_dashboard.py:90-91 and 142-143: value_counts().head(20) as labels
\* and values; the results the sort can give
top_counts(col) ==
    {[labels |-> head(vc.labels, TopN), values |-> head(vc.values, TopN)] :
        vc \in value_counts(col)}

\* the texts of a column of texts
texts(df, col) == [i \in DOMAIN df.rows |-> df.rows[i][col].s]

\* A slip: the missing date formatted as it prints
connection_of_nat(r) ==
    [name |-> r["Full Name"].s,
     firstName |-> r["First Name"].s,
     lastName |-> r["Last Name"].s,
     company |-> r["Company"].s,
     position |-> r["Position"].s,
     seniority |-> r["Seniority"],
     connected |-> IF notna(r["Connected On"]) THEN strftime_Ymd(r["Connected On"])
                   ELSE <<"N", "a", "T">>,
     year |-> IF notna(r["Connected On"]) THEN r["Connected On"].y ELSE 0,
     url |-> IF notna(get_or_empty(r, "URL")) THEN get_or_empty(r, "URL").s ELSE <<>>]

\* build_dashboard.py:68-79 on one row
connection_of(r) ==
    [name |-> r["Full Name"].s,
     firstName |-> r["First Name"].s,
     lastName |-> r["Last Name"].s,
     company |-> r["Company"].s,
     position |-> r["Position"].s,
     seniority |-> r["Seniority"],
     connected |-> IF notna(r["Connected On"]) THEN strftime_Ymd(r["Connected On"])
                   ELSE <<>>,
     year |-> IF notna(r["Connected On"]) THEN r["Connected On"].y ELSE 0,
     url |-> IF notna(get_or_empty(r, "URL")) THEN get_or_empty(r, "URL").s ELSE <<>>]

\* the number of companies unique_companies takes from value_counts()
UniqueCompaniesN == 100

\* build_dashboard.py:84: the years that occur, ascending
unique_years_of(conn) ==
    LET rows == dropna_Connected(conn.rows)
    IN  Ascending({rows[i]["Connected On"].y : i \in DOMAIN rows})

\* timedelta(days=730), in hours
DormantDays == 730

\* the rows dormant.head(200) keeps
DormantCap == 200

\* build_dashboard.py:173: datetime.now() - timedelta(days=730), in hours
\* from 1970-01-01 00:00
cutoff_of(now) == hours_of(now) - DormantDays * 24

\* build_dashboard.py:174, the mask: NaT < cutoff is False
is_dormant(r, c) == notna(r["Connected On"]) /\ hours_of(r["Connected On"]) < c

\* A slip: the comparison with <=
dormant_orders_le(conn, c) ==
    LET sel == SelectSeq(conn.rows,
                         LAMBDA r : notna(r["Connected On"]) /\ hours_of(r["Connected On"]) <= c)
    IN  {[r \in DOMAIN p |-> sel[p[r]]] :
            p \in argsort([i \in DOMAIN sel |-> hours_of(sel[i]["Connected On"])])}

\* build_dashboard.py:174: the selection sorted by Connected On; the results
\* the sort can give
dormant_orders(conn, c) ==
    LET sel == SelectSeq(conn.rows, LAMBDA r : is_dormant(r, c))
    IN  {[r \in DOMAIN p |-> sel[p[r]]] :
            p \in argsort([i \in DOMAIN sel |-> hours_of(sel[i]["Connected On"])])}

\* build_dashboard.py:177-184 on one row
dormant_entry(r) ==
    [name |-> r["Full Name"].s,
     company |-> r["Company"].s,
     position |-> r["Position"].s,
     seniority |-> r["Seniority"],
     connected |-> IF notna(r["Connected On"]) THEN strftime_Ymd(r["Connected On"])
                   ELSE <<>>,
     url |-> IF notna(get_or_empty(r, "URL")) THEN get_or_empty(r, "URL").s ELSE <<>>]

\* build_dashboard.py:175-184
dormant_list_of(d) ==
    LET shown == head(d, DormantCap) IN [i \in DOMAIN shown |-> dormant_entry(shown[i])]

month_abbr == <<<<"J", "a", "n">>, <<"F", "e", "b">>, <<"M", "a", "r">>, <<"A", "p", "r">>,
                <<"M", "a", "y">>, <<"J", "u", "n">>, <<"J", "u", "l">>, <<"A", "u", "g">>,
                <<"S", "e", "p">>, <<"O", "c", "t">>, <<"N", "o", "v">>, <<"D", "e", "c">>>>

\* strftime("%b %Y")
strftime_bY(t) == month_abbr[t.m] \o <<" ">> \o Pad(t.y, 4)

NotAvailable == <<"N", "/", "A">>

\* the companies a cluster needs
ClusterMin == 5

\* A slip: a cluster needs more than ClusterMin connections
clusters_above(col) ==
    {LET keep == Ascending({k \in DOMAIN vc.values : vc.values[k] > ClusterMin})
     IN  [labels |-> [r \in DOMAIN keep |-> vc.labels[keep[r]]],
          values |-> [r \in DOMAIN keep |-> vc.values[keep[r]]]] :
        vc \in value_counts(col)}

\* build_dashboard.py:138-140: value_counts() under the mask clusters_s >= 5,
\* as labels and values; the results the sort can give
clusters_of(col) ==
    {LET keep == Ascending({k \in DOMAIN vc.values : vc.values[k] >= ClusterMin})
     IN  [labels |-> [r \in DOMAIN keep |-> vc.labels[keep[r]]],
          values |-> [r \in DOMAIN keep |-> vc.values[keep[r]]]] :
        vc \in value_counts(col)}

\* build_dashboard.py:146-150: the number of posts of each type, the types
\* in the order of their first post (the order of the keys of a dict)
post_type_data_of(posts) ==
    LET types == [i \in DOMAIN posts |-> posts[i].type]
        keys == unique(types)
    IN  [labels |-> keys,
         values |-> [k \in DOMAIN keys |->
                        Cardinality({i \in DOMAIN types : types[i] = keys[k]})]]

\* build_dashboard.py:153-158: the dated shares of every month from the
\* first to the last
posts_monthly_data_of(shares) ==
    LET posts_monthly == resample_ME_size(dates_of(shares))
    IN  [labels |-> [k \in DOMAIN posts_monthly |-> strftime_Ym(posts_monthly[k].Month)],
         values |-> [k \in DOMAIN posts_monthly |-> posts_monthly[k].size]]

SeniorTiers == {"C-Level / Founder", "VP", "Director", "Head of"}

\* a row of least (sign 1) or greatest (sign -1) Connected On
extreme_connected(rows, sign) ==
    rows[CHOOSE i \in DOMAIN rows :
            \A j \in DOMAIN rows :
                sign * hours_of(rows[i]["Connected On"])
                    <= sign * hours_of(rows[j]["Connected On"])]["Connected On"]

\* A slip: the dormant count taken from the capped list
stats_of_capped(conn, shares, comments, reactions, d) ==
    LET companies == texts(conn, "Company")
        dated == dropna_Connected(conn.rows)
    IN  [total_connections |-> Len(conn.rows),
         unique_companies |-> Cardinality(Range(companies)),
         unique_positions |-> Cardinality(Range(texts(conn, "Position"))),
         total_posts |-> Len(shares.rows),
         total_comments |-> Len(comments.rows),
         total_reactions |-> Len(reactions.rows),
         senior_connections |->
             Cardinality({i \in DOMAIN conn.rows : conn.rows[i]["Seniority"] \in SeniorTiers}),
         dormant_connections |-> Len(dormant_list_of(d)),
         earliest |-> IF dated # <<>> THEN strftime_bY(extreme_connected(dated, 1))
                      ELSE NotAvailable,
         latest |-> IF dated # <<>> THEN strftime_bY(extreme_connected(dated, -1))
                    ELSE NotAvailable,
         clusters_count |->
             Cardinality({c \in Range(companies) :
                             Cardinality({i \in DOMAIN companies : companies[i] = c})
                                 >= ClusterMin})]

\* build_dashboard.py:186-200 (clusters_count is len(clusters_s) of 138-139)
stats_of(conn, shares, comments, reactions, d) ==
    LET companies == texts(conn, "Company")
        dated == dropna_Connected(conn.rows)
    IN  [total_connections |-> Len(conn.rows),
         unique_companies |-> Cardinality(Range(companies)),
         unique_positions |-> Cardinality(Range(texts(conn, "Position"))),
         total_posts |-> Len(shares.rows),
         total_comments |-> Len(comments.rows),
         total_reactions |-> Len(reactions.rows),
         senior_connections |->
             Cardinality({i \in DOMAIN conn.rows : conn.rows[i]["Seniority"] \in SeniorTiers}),
         dormant_connections |-> Len(d),
         earliest |-> IF dated # <<>> THEN strftime_bY(extreme_connected(dated, 1))
                      ELSE NotAvailable,
         latest |-> IF dated # <<>> THEN strftime_bY(extreme_connected(dated, -1))
                    ELSE NotAvailable,
         clusters_count |->
             Cardinality({c \in Range(companies) :
                             Cardinality({i \in DOMAIN companies : companies[i] = c})
                                 >= ClusterMin})]

-----------------------------------------------------------------------------
(* The script build_dashboard.py, one action per step.  A step that raises  *)
(* ends the run: pc becomes "raised" and error holds the exception.         *)

Unset == [kind |-> "unset"]

NoError == [type |-> "none"]

\* the variables no step of the script changes
envVars == <<base_dir, clock>>

tableVars == <<conn_df, shares_df, comments_df, reactions_df, profile_df,
               profile_name, profile_headline>>

postVars == <<posts_list_full, posts_list>>

connVars == <<all_connections, unique_companies, unique_years>>

dormantVars == <<cutoff, dormant, dormant_list>>

outVars == <<stats, html, output>>

\* pandas.read_csv on a path that does not exist: the OSError of open()
NoSuchFile(dir, name) ==
    [type |-> "FileNotFoundError",
     message |-> "[Errno 2] No such file or directory",
     filename |-> <<dir, name>>]

\* a script that opens the output file before it looks for the export
FindExportDir_opening ==
    /\ pc = "find"
    /\ LET found == find_export_dir(base_dir)
       IN  IF found.raised
           THEN /\ pc' = "raised"
                /\ error' = found.error
                /\ UNCHANGED <<EXPORT_DIR, fs>>
           ELSE /\ pc' = "start"
                /\ EXPORT_DIR' = <<base_dir[found.dir].place, base_dir[found.dir].name>>
                /\ fs' = base_dir[found.dir].files
                /\ UNCHANGED error
    /\ output' = [exists |-> TRUE, content |-> <<>>, opens |-> 0, writes |-> 0]
    /\ UNCHANGED <<envVars, tableVars, postVars, connVars, dormantVars, stats, html,
                   companies_data, seniority_data, growth_data, yearly_data,
                   activity_data, day_data, hour_data, clusters_data, positions_data,
                   post_type_data, posts_monthly_data, word_count_data,
                   callVars, reportVars>>

\* build_dashboard.py:13
FindExportDir ==
    /\ pc = "find"
    /\ LET found == find_export_dir(base_dir)
       IN  IF found.raised
           THEN /\ pc' = "raised"
                /\ error' = found.error
                /\ UNCHANGED <<EXPORT_DIR, fs>>
           ELSE /\ pc' = "start"
                /\ EXPORT_DIR' = <<base_dir[found.dir].place, base_dir[found.dir].name>>
                /\ fs' = base_dir[found.dir].files
                /\ UNCHANGED error
    /\ UNCHANGED <<envVars, tableVars, postVars, connVars, dormantVars, outVars,
                   companies_data, seniority_data, growth_data, yearly_data,
                   activity_data, day_data, hour_data, clusters_data, positions_data,
                   post_type_data, posts_monthly_data, word_count_data,
                   callVars, reportVars>>

\* build_dashboard.py:22
LoadConnections ==
    /\ pc = "start"
    /\ IF fs["Connections.csv"].exists
       THEN /\ pc' = "connections"
            /\ conn_df' = load_connections(fs["Connections.csv"])
            /\ UNCHANGED error
       ELSE /\ pc' = "raised"
            /\ error' = NoSuchFile(EXPORT_DIR, "Connections.csv")
            /\ UNCHANGED conn_df
    /\ UNCHANGED <<fs, EXPORT_DIR, envVars, shares_df, comments_df, reactions_df,
                   profile_df, profile_name, profile_headline, postVars, connVars,
                   dormantVars, outVars,
                   companies_data, seniority_data, growth_data, yearly_data,
                   activity_data, day_data, hour_data, clusters_data, positions_data,
                   post_type_data, posts_monthly_data, word_count_data,
                   callVars, reportVars>>

\* build_dashboard.py:23
LoadShares ==
    /\ pc = "connections"
    /\ pc' = "shares"
    /\ shares_df' = load_shares(fs["Shares.csv"])
    /\ UNCHANGED <<fs, EXPORT_DIR, error, envVars, conn_df, comments_df, reactions_df,
                   profile_df, profile_name, profile_headline, postVars, connVars,
                   dormantVars, outVars,
                   companies_data, seniority_data, growth_data, yearly_data,
                   activity_data, day_data, hour_data, clusters_data, positions_data,
                   post_type_data, posts_monthly_data, word_count_data,
                   callVars, reportVars>>

\* build_dashboard.py:24
LoadComments ==
    /\ pc = "shares"
    /\ pc' = "comments"
    /\ comments_df' = load_comments(fs["Comments.csv"])
    /\ UNCHANGED <<fs, EXPORT_DIR, error, envVars, conn_df, shares_df, reactions_df,
                   profile_df, profile_name, profile_headline, postVars, connVars,
                   dormantVars, outVars,
                   companies_data, seniority_data, growth_data, yearly_data,
                   activity_data, day_data, hour_data, clusters_data, positions_data,
                   post_type_data, posts_monthly_data, word_count_data,
                   callVars, reportVars>>

\* build_dashboard.py:25
LoadReactions ==
    /\ pc = "comments"
    /\ pc' = "reactions"
    /\ reactions_df' = load_reactions(fs["Reactions.csv"])
    /\ UNCHANGED <<fs, EXPORT_DIR, error, envVars, conn_df, shares_df, comments_df,
                   profile_df, profile_name, profile_headline, postVars, connVars,
                   dormantVars, outVars,
                   companies_data, seniority_data, growth_data, yearly_data,
                   activity_data, day_data, hour_data, clusters_data, positions_data,
                   post_type_data, posts_monthly_data, word_count_data,
                   callVars, reportVars>>

\* build_dashboard.py:26-33
LoadProfile ==
    /\ pc = "reactions"
    /\ pc' = "profile"
    /\ profile_df' = load_profile(fs["Profile.csv"])
    /\ profile_name' = profile_of(profile_df').name
    /\ profile_headline' = profile_of(profile_df').headline
    /\ UNCHANGED <<fs, EXPORT_DIR, error, envVars, conn_df, shares_df, comments_df,
                   reactions_df, postVars, connVars, dormantVars, outVars,
                   companies_data, seniority_data, growth_data, yearly_data,
                   activity_data, day_data, hour_data, clusters_data, positions_data,
                   post_type_data, posts_monthly_data, word_count_data,
                   callVars, reportVars>>

\* A slip: enrich_posts without the .copy() of line 127, so that the urn
\* column is added to the caller's table of dated shares
EnrichPosts_in_place ==
    /\ pc = "profile"
    /\ pc' = "enriched"
    /\ posts_list_full' = enrich_posts(shares_df, comments_df)
    /\ posts_list' = [i \in DOMAIN posts_list_full' |-> preview_only(posts_list_full'[i])]
    /\ shares_df' = [shares_df EXCEPT
                        !.columns = @ \cup {"urn"},
                        !.rows = [i \in DOMAIN @ |->
                                     @[i] @@ ("urn" :> extract_urn(get_or_empty(@[i], "ShareLink")))]]
    /\ UNCHANGED <<fs, EXPORT_DIR, error, envVars, conn_df, comments_df, reactions_df,
                   profile_df, profile_name, profile_headline, connVars, dormantVars,
                   outVars,
                   companies_data, seniority_data, growth_data, yearly_data,
                   activity_data, day_data, hour_data, clusters_data, positions_data,
                   post_type_data, posts_monthly_data, word_count_data,
                   callVars, reportVars>>

\* build_dashboard.py:41-56
EnrichPosts ==
    /\ pc = "profile"
    /\ pc' = "enriched"
    /\ posts_list_full' = enrich_posts(shares_df, comments_df)
    /\ posts_list' = [i \in DOMAIN posts_list_full' |-> preview_only(posts_list_full'[i])]
    /\ UNCHANGED <<fs, EXPORT_DIR, error, envVars, tableVars, connVars, dormantVars,
                   outVars,
                   companies_data, seniority_data, growth_data, yearly_data,
                   activity_data, day_data, hour_data, clusters_data, positions_data,
                   post_type_data, posts_monthly_data, word_count_data,
                   callVars, reportVars>>

\* build_dashboard.py:67-84
AllConnections ==
    /\ pc = "enriched"
    /\ pc' = "all_connections"
    /\ all_connections' = [i \in DOMAIN conn_df.rows |-> connection_of(conn_df.rows[i])]
    /\ \E vc \in value_counts(texts(conn_df, "Company")) :
           unique_companies' = Range(head(vc.labels, UniqueCompaniesN))
    /\ unique_years' = unique_years_of(conn_df)
    /\ UNCHANGED <<fs, EXPORT_DIR, error, envVars, tableVars, postVars, dormantVars,
                   outVars,
                   companies_data, seniority_data, growth_data, yearly_data,
                   activity_data, day_data, hour_data, clusters_data, positions_data,
                   post_type_data, posts_monthly_data, word_count_data,
                   callVars, reportVars>>

\* build_dashboard.py:90-91
CompaniesData ==
    /\ pc = "all_connections"
    /\ pc' = "companies"
    /\ companies_data' \in top_counts(texts(conn_df, "Company"))
    /\ UNCHANGED <<fs, EXPORT_DIR, error, envVars, tableVars, postVars, connVars,
                   dormantVars, outVars,
                   seniority_data, growth_data, yearly_data,
                   activity_data, day_data, hour_data, clusters_data, positions_data,
                   post_type_data, posts_monthly_data, word_count_data,
                   callVars, reportVars>>

\* build_dashboard.py:93-95
SeniorityData ==
    /\ pc = "companies"
    /\ pc' = "seniority"
    /\ seniority_data' = seniority_data_of(conn_df)
    /\ UNCHANGED <<fs, EXPORT_DIR, error, envVars, tableVars, postVars, connVars,
                   dormantVars, outVars,
                   companies_data, growth_data, yearly_data,
                   activity_data, day_data, hour_data, clusters_data, positions_data,
                   post_type_data, posts_monthly_data, word_count_data,
                   callVars, reportVars>>

\* build_dashboard.py:97-109
GrowthData ==
    /\ pc = "seniority"
    /\ pc' = "growth"
    /\ growth_data' = growth_data_of(conn_df)
    /\ yearly_data' = yearly_data_of(conn_df)
    /\ UNCHANGED <<fs, EXPORT_DIR, error, envVars, tableVars, postVars, connVars,
                   dormantVars, outVars,
                   companies_data, seniority_data,
                   activity_data, day_data, hour_data, clusters_data, positions_data,
                   post_type_data, posts_monthly_data, word_count_data,
                   callVars, reportVars>>

\* build_dashboard.py:111-123
ActivityData ==
    /\ pc = "growth"
    /\ pc' = "activity"
    /\ activity_data' = activity_data_of(shares_df, comments_df, reactions_df)
    /\ UNCHANGED <<fs, EXPORT_DIR, error, envVars, tableVars, postVars, connVars,
                   dormantVars, outVars,
                   companies_data, seniority_data, growth_data, yearly_data,
                   day_data, hour_data, clusters_data, positions_data,
                   post_type_data, posts_monthly_data, word_count_data,
                   callVars, reportVars>>

\* build_dashboard.py:125-129
DayData ==
    /\ pc = "activity"
    /\ pc' = "day"
    /\ day_data' = day_data_of(shares_df)
    /\ UNCHANGED <<fs, EXPORT_DIR, error, envVars, tableVars, postVars, connVars,
                   dormantVars, outVars,
                   companies_data, seniority_data, growth_data, yearly_data,
                   activity_data, hour_data, clusters_data, positions_data,
                   post_type_data, posts_monthly_data, word_count_data,
                   callVars, reportVars>>

\* build_dashboard.py:131-133
HourData ==
    /\ pc = "day"
    /\ pc' = "hour"
    /\ hour_data' = hour_data_of(shares_df)
    /\ UNCHANGED <<fs, EXPORT_DIR, error, envVars, tableVars, postVars, connVars,
                   dormantVars, outVars,
                   companies_data, seniority_data, growth_data, yearly_data,
                   activity_data, day_data, clusters_data, positions_data,
                   post_type_data, posts_monthly_data, word_count_data,
                   callVars, reportVars>>

\* build_dashboard.py:138-143: the clusters and the top positions
PositionsData ==
    /\ pc = "hour"
    /\ pc' = "positions"
    /\ clusters_data' \in clusters_of(texts(conn_df, "Company"))
    /\ positions_data' \in top_counts(texts(conn_df, "Position"))
    /\ UNCHANGED <<fs, EXPORT_DIR, error, envVars, tableVars, postVars, connVars,
                   dormantVars, outVars,
                   companies_data, seniority_data, growth_data, yearly_data,
                   activity_data, day_data, hour_data,
                   post_type_data, posts_monthly_data, word_count_data,
                   callVars, reportVars>>

\* build_dashboard.py:146-170: the post types, the posts of every month and
\* the word-count buckets
WordCountData ==
    /\ pc = "positions"
    /\ pc' = "charts"
    /\ post_type_data' = post_type_data_of(posts_list)
    /\ posts_monthly_data' = posts_monthly_data_of(shares_df)
    /\ word_count_data' = word_count_data_of(posts_list)
    /\ UNCHANGED <<fs, EXPORT_DIR, error, envVars, tableVars, postVars, connVars,
                   dormantVars, outVars,
                   companies_data, seniority_data, growth_data, yearly_data,
                   activity_data, day_data, hour_data, clusters_data, positions_data,
                   callVars, reportVars>>

\* build_dashboard.py:173-184; datetime.now() reads the clock
Dormant ==
    /\ pc = "charts"
    /\ pc' = "dormant"
    /\ cutoff' = cutoff_of(clock)
    /\ dormant' \in dormant_orders(conn_df, cutoff')
    /\ dormant_list' = dormant_list_of(dormant')
    /\ UNCHANGED <<fs, EXPORT_DIR, error, envVars, tableVars, postVars, connVars,
                   outVars,
                   companies_data, seniority_data, growth_data, yearly_data,
                   activity_data, day_data, hour_data, clusters_data, positions_data,
                   post_type_data, posts_monthly_data, word_count_data,
                   callVars, reportVars>>

\* build_dashboard.py:186-200
Stats ==
    /\ pc = "dormant"
    /\ pc' = "stats"
    /\ stats' = stats_of(conn_df, shares_df, comments_df, reactions_df, dormant)
    /\ UNCHANGED <<fs, EXPORT_DIR, error, envVars, tableVars, postVars, connVars,
                   dormantVars, html, output,
                   companies_data, seniority_data, growth_data, yearly_data,
                   activity_data, day_data, hour_data, clusters_data, positions_data,
                   post_type_data, posts_monthly_data, word_count_data,
                   callVars, reportVars>>

uniqueSeniorities == <<"C-Level / Founder", "VP", "Director", "Head of",
                       "Manager / Lead", "Senior IC", "IC / Specialist",
                       "Junior / Associate">>

(* build_dashboard.py:208-820: the page.  Of the text of the page the model
   keeps the values the f-string puts into it: the header, the stat cards and
   the constants of the script.  json.dumps of a value followed by the
   browser's reading of the script gives the value back for numbers and for
   texts that do not hold the end tag of the script element; the texts of the
   export directories of this module hold none. *)
Render ==
    /\ pc = "stats"
    /\ pc' = "rendered"
    /\ html' = [profile_name |-> profile_name,
                profile_headline |-> profile_headline,
                stats |-> stats,
                total_posts_card |-> Len(posts_list),
                companies |-> companies_data,
                seniority |-> seniority_data,
                growth |-> growth_data,
                yearly |-> yearly_data,
                activityD |-> activity_data,
                dayData |-> day_data,
                hourData |-> hour_data,
                clustersD |-> clusters_data,
                positionsTop |-> positions_data,
                postTypeD |-> post_type_data,
                postsMonthlyD |-> posts_monthly_data,
                wordCountD |-> word_count_data,
                allPosts |-> posts_list,
                allConnections |-> all_connections,
                dormantD |-> dormant_list,
                uniqueCompanies |-> unique_companies,
                uniqueSeniorities |-> uniqueSeniorities,
                uniqueYears |-> unique_years,
                totalConn |-> stats.total_connections]
    /\ UNCHANGED <<fs, EXPORT_DIR, error, envVars, tableVars, postVars, connVars,
                   dormantVars, stats, output,
                   companies_data, seniority_data, growth_data, yearly_data,
                   activity_data, day_data, hour_data, clusters_data, positions_data,
                   post_type_data, posts_monthly_data, word_count_data,
                   callVars, reportVars>>

\* build_dashboard.py:822: open(OUTPUT_PATH, "w") creates or truncates the file
OpenOutput ==
    /\ pc = "rendered"
    /\ pc' = "opened"
    /\ output' = [exists |-> TRUE, content |-> <<>>, opens |-> output.opens + 1,
                  writes |-> output.writes]
    /\ UNCHANGED <<fs, EXPORT_DIR, error, envVars, tableVars, postVars, connVars,
                   dormantVars, stats, html,
                   companies_data, seniority_data, growth_data, yearly_data,
                   activity_data, day_data, hour_data, clusters_data, positions_data,
                   post_type_data, posts_monthly_data, word_count_data,
                   callVars, reportVars>>

\* build_dashboard.py:823-825: f.write(html) and the end of the with block
WriteOutput ==
    /\ pc = "opened"
    /\ pc' = "written"
    /\ output' = [output EXCEPT !.content = <<html>>, !.writes = @ + 1]
    /\ UNCHANGED <<fs, EXPORT_DIR, error, envVars, tableVars, postVars, connVars,
                   dormantVars, stats, html,
                   companies_data, seniority_data, growth_data, yearly_data,
                   activity_data, day_data, hour_data, clusters_data, positions_data,
                   post_type_data, posts_monthly_data, word_count_data,
                   callVars, reportVars>>

Next ==
    \/ FindExportDir
    \/ LoadConnections
    \/ LoadShares
    \/ LoadComments
    \/ LoadReactions
    \/ LoadProfile
    \/ EnrichPosts
    \/ AllConnections
    \/ CompaniesData
    \/ SeniorityData
    \/ GrowthData
    \/ ActivityData
    \/ DayData
    \/ HourData
    \/ PositionsData
    \/ WordCountData
    \/ Dormant
    \/ Stats
    \/ Render
    \/ OpenOutput
    \/ WriteOutput

\* the script up to the enrichment of the posts, line 56
NextEnrich ==
    \/ FindExportDir
    \/ LoadConnections
    \/ LoadShares
    \/ LoadComments
    \/ LoadReactions
    \/ LoadProfile
    \/ EnrichPosts

FileNames == {"Connections.csv", "Shares.csv", "Comments.csv", "Reactions.csv",
              "Profile.csv", "messages.csv"}

\* an entry of the project directory that is an export directory
ExportDir(place, name, mtime, files) ==
    [place |-> place, name |-> name, isdir |-> TRUE, mtime |-> mtime, files |-> files]

\* an entry of the project directory that is a file, such as the zip archive
ZipFile(place, name, mtime) ==
    [place |-> place, name |-> name, isdir |-> FALSE, mtime |-> mtime,
     files |-> [f \in {} |-> NoFile]]

NoOutput == [exists |-> FALSE, content |-> <<>>, opens |-> 0, writes |-> 0]

\* the page an earlier run left
StaleOutput == [exists |-> TRUE, content |-> <<"stale">>, opens |-> 0, writes |-> 0]

\* The state before the script runs: the project directory, the clock, the
\* output file, and the arguments of the direct calls
InitRun(entries, clk, out, p, u) ==
    /\ pc = "find"
    /\ base_dir = entries
    /\ clock = clk
    /\ output = out
    /\ fs = Unset
    /\ EXPORT_DIR = Unset
    /\ error = NoError
    /\ conn_df = Unset
    /\ shares_df = Unset
    /\ comments_df = Unset
    /\ reactions_df = Unset
    /\ profile_df = Unset
    /\ profile_name = Unset
    /\ profile_headline = Unset
    /\ posts_list_full = Unset
    /\ posts_list = Unset
    /\ all_connections = Unset
    /\ unique_companies = Unset
    /\ unique_years = Unset
    /\ companies_data = Unset
    /\ seniority_data = Unset
    /\ growth_data = Unset
    /\ yearly_data = Unset
    /\ activity_data = Unset
    /\ day_data = Unset
    /\ hour_data = Unset
    /\ owner_name = Unset
    /\ convos = Unset
    /\ positions_data = Unset
    /\ clusters_data = Unset
    /\ post_type_data = Unset
    /\ posts_monthly_data = Unset
    /\ word_count_data = Unset
    /\ cutoff = Unset
    /\ dormant = Unset
    /\ dormant_list = Unset
    /\ stats = Unset
    /\ html = Unset
    /\ connFilters = Unset
    /\ connSearch = Unset
    /\ filter_tags = Unset
    /\ conn_data = Unset
    /\ conn_table = Unset
    /\ conn_more = Unset
    /\ conn_count = Unset
    /\ postTypeFilter = Unset
    /\ postSearch = Unset
    /\ postPills = Unset
    /\ posts_shown = Unset
    /\ post_count = Unset
    /\ nav_active = Unset
    /\ section_active = Unset
    /\ messages_df = Unset
    /\ position = p
    /\ seniority = "unset"
    /\ url = u
    /\ urn = Unset
    /\ urn_quoted = Unset
    /\ urn_again = Unset

\* the files of an export directory with these six files
FilesOf(connections, shares, comments, reactions, profile, messages) ==
    [f \in FileNames |->
        CASE f = "Connections.csv" -> connections
          [] f = "Shares.csv" -> shares
          [] f = "Comments.csv" -> comments
          [] f = "Reactions.csv" -> reactions
          [] f = "Profile.csv" -> profile
          [] f = "messages.csv" -> messages]

BasicExport == <<"B", "a", "s", "i", "c", "_", "L", "i", "n", "k", "e", "d", "I", "n", "D", "a", "t", "a", "E", "x", "p", "o", "r", "t", "_", "0", "1", "-", "0", "1", "-", "2", "0", "2", "5">>

\* a clock of the day before the earliest date of the export directories
EarlyClock == Timestamp(2023, 2, 27, 12)

\* The state before the script runs in a project directory whose one export
\* directory holds these files and no others, and before a direct call of
\* classify_seniority(p) or extract_urn(u)
InitWith(connections, shares, comments, p, u) ==
    InitRun(<<ExportDir("base", BasicExport, 1,
                        FilesOf(connections, shares, comments, NoFile, NoFile, NoFile))>>,
            EarlyClock, NoOutput, p, u)

-----------------------------------------------------------------------------
(* Direct calls of classify_seniority, and load_connections on a one-row     *)
(* Connections.csv, over titles put together from fragments                  *)

MaxTitleParts == 3

TitleFragments == {
    <<"D", "i", "r", "e", "c", "t", "o", "r", " ">>,
    <<"o", "f", " ">>,
    <<"E", "n", "g", "i", "n", "e", "e", "r">>,
    <<"C", "h", "i", "e", "f", " ">>,
    <<"C", "T", "O">>,
    <<"V", "P", " ">>,
    <<"H", "e", "a", "d", " ">>,
    <<"L", "e", "a", "d">>,
    <<"S", "e", "n", "i", "o", "r", " ">>,
    <<"S", "r", ".">>,
    <<"I", "n", "t", "e", "r", "n">>,
    <<" ", " ">>}

RECURSIVE Concat(_)
\* the texts of a sequence, joined
Concat(parts) ==
    IF parts = <<>> THEN <<>>
    ELSE IF Len(parts) = 1 THEN parts[1]
    ELSE Concat(SubSeq(parts, 1, Len(parts) \div 2))
         \o Concat(SubSeq(parts, (Len(parts) \div 2) + 1, Len(parts)))

Titles ==
    {Concat(f) : f \in UNION {[1..n -> TitleFragments] : n \in 0..MaxTitleParts}}

\* the titles the specification names
ExampleTitles == {
    <<"D", "i", "r", "e", "c", "t", "o", "r", " ", "o", "f", " ",
      "E", "n", "g", "i", "n", "e", "e", "r", "i", "n", "g">>,
    <<"C", "h", "i", "e", "f", " ", "T", "e", "c", "h", "n", "o", "l", "o", "g", "y",
      " ", "O", "f", "f", "i", "c", "e", "r">>,
    <<"C", "T", "O">>}

ClassifyInputs ==
    {Str(t) : t \in Titles \cup ExampleTitles} \cup {NaN, None, Num(0), Num(5)}

ConnectionsColumns == {"First Name", "Last Name", "URL", "Company", "Position",
                       "Connected On"}

\* a row of Connections.csv; read_csv reads an empty cell as NaN
ConnectionRow(first, last, company, title, connected) ==
    [c \in ConnectionsColumns |->
        CASE c = "First Name" -> first
          [] c = "Last Name" -> last
          [] c = "URL" -> NaN
          [] c = "Company" -> company
          [] c = "Position" -> IF title.kind = "str" /\ title.s # <<>> THEN title ELSE NaN
          [] c = "Connected On" -> connected]

Ada == Str(<<"A", "d", "a">>)
Lovelace == Str(<<"L", "o", "v", "e", "l", "a", "c", "e">>)
Acme == Str(<<"A", "c", "m", "e">>)

InitClassify ==
    \E p \in ClassifyInputs :
        InitWith(File(ConnectionsColumns,
                      IF p.kind \in {"str", "nan"}
                      THEN <<ConnectionRow(Ada, Lovelace, Acme, p, NaN)>>
                      ELSE <<>>),
                 NoFile, NoFile, p, Unset)

\* classify_seniority(position)
ClassifyCall ==
    /\ position # Unset
    /\ seniority = "unset"
    /\ seniority' = classify_seniority(position)
    /\ UNCHANGED <<pipelineVars, convoVars, position, url, urn, urn_quoted, urn_again, messages_df>>

NextClassify == ClassifyCall \/ FindExportDir \/ LoadConnections

SpecClassify == InitClassify /\ [][NextClassify]_vars

Tiers == {"C-Level / Founder", "VP", "Director", "Head of", "Manager / Lead",
          "Senior IC", "IC / Specialist", "Junior / Associate"}

\* C1: classify_seniority is total with the eight tiers as its range: every
\* call, on a title, the empty text, NaN, None or a number, returns one of
\* the eight tiers; every row of the table load_connections returns has a
\* Seniority among the eight tiers; and a row whose Position is the text of
\* the call gets the tier the call returned.
C1_ClassifyTotal ==
    /\ seniority # "unset" => seniority \in Tiers
    /\ pc = "connections" =>
          /\ Len(conn_df.rows) = Len(fs["Connections.csv"].rows)
          /\ \A i \in DOMAIN conn_df.rows :
                /\ conn_df.rows[i]["Seniority"] \in Tiers
                /\ (seniority # "unset" /\ position.kind = "str"
                        /\ conn_df.rows[i]["Position"].s = position.s)
                   => conn_df.rows[i]["Seniority"] = seniority

\* C1 witness: a null title was classified, and load_connections produced a
\* row for the empty Position cell
C1_Witness ==
    /\ position = NaN
    /\ seniority = "IC / Specialist"
    /\ pc = "connections"
    /\ Len(conn_df.rows) = 1
    /\ conn_df.rows[1]["Seniority"] = "IC / Specialist"

\* The rule list of the specification: keyword sets and labels, in order
C2_Rules == <<
    [label |-> "Director",
     kws |-> {<<"d", "i", "r", "e", "c", "t", "o", "r">>}],
    [label |-> "C-Level / Founder",
     kws |-> {<<"c", "e", "o">>, <<"c", "t", "o">>, <<"c", "f", "o">>,
              <<"c", "o", "o">>, <<"c", "r", "o">>, <<"c", "h", "i", "e", "f">>,
              <<"f", "o", "u", "n", "d", "e", "r">>,
              <<"c", "o", "-", "f", "o", "u", "n", "d", "e", "r">>,
              <<"o", "w", "n", "e", "r">>, <<"p", "a", "r", "t", "n", "e", "r">>}],
    [label |-> "VP",
     kws |-> {<<"v", "p">>,
              <<"v", "i", "c", "e", " ", "p", "r", "e", "s", "i", "d", "e", "n", "t">>}],
    [label |-> "Head of",
     kws |-> {<<"h", "e", "a", "d", " ", "o", "f">>, <<"h", "e", "a", "d", " ">>}],
    [label |-> "Manager / Lead",
     kws |-> {<<"m", "a", "n", "a", "g", "e", "r">>, <<"l", "e", "a", "d">>,
              <<"t", "e", "a", "m", " ", "l", "e", "a", "d">>}],
    [label |-> "Senior IC",
     kws |-> {<<"s", "e", "n", "i", "o", "r">>, <<"s", "r", ".">>, <<"s", "r", " ">>}],
    [label |-> "Junior / Associate",
     kws |-> {<<"j", "u", "n", "i", "o", "r">>, <<"j", "r", ".">>,
              <<"i", "n", "t", "e", "r", "n">>, <<"t", "r", "a", "i", "n", "e", "e">>,
              <<"a", "s", "s", "o", "c", "i", "a", "t", "e">>}]>>

\* kw occurs in the text, letter case ignored
C2_OccursIgnoringCase(kw, text) ==
    \E i \in 1..(Len(text) - Len(kw) + 1) :
        \A j \in 1..Len(kw) : lower_char(text[i + j - 1]) = kw[j]

C2_RuleMatches(k, text) == \E kw \in C2_Rules[k].kws : C2_OccursIgnoringCase(kw, text)

C2_FirstMatch(text) ==
    IF \E k \in DOMAIN C2_Rules : C2_RuleMatches(k, text)
    THEN C2_Rules[CHOOSE k \in DOMAIN C2_Rules :
                      /\ C2_RuleMatches(k, text)
                      /\ \A h \in 1..(k - 1) : ~C2_RuleMatches(h, text)].label
    ELSE "IC / Specialist"

\* C2: the tier a call returns is the label of the first rule of the fixed
\* order one of whose keywords occurs in the title with letter case ignored,
\* and IC / Specialist when no rule matches; the empty and the null title are
\* IC / Specialist; a title with both director and a C-level keyword is
\* Director.
C2_FirstRuleWins ==
    seniority # "unset" =>
        /\ seniority = C2_FirstMatch(str(position))
        /\ position \in {NaN, None, Str(<<>>)} => seniority = "IC / Specialist"
        /\ (position.kind = "str" /\ C2_RuleMatches(1, position.s)
                /\ C2_RuleMatches(2, position.s)) => seniority = "Director"

\* C2 witness: a title with chief and director in it was classified Director
C2_Witness ==
    /\ seniority = "Director"
    /\ position.kind = "str"
    /\ C2_OccursIgnoringCase(<<"c", "h", "i", "e", "f">>, position.s)
    /\ C2_OccursIgnoringCase(<<"d", "i", "r", "e", "c", "t", "o", "r">>, position.s)

-----------------------------------------------------------------------------
(* Direct calls of extract_urn, over URLs put together from fragments *)

MaxUrlParts == 3

UrlFragments == {
    <<"h", "t", "t", "p", "s", ":", "/", "/", "x", ".", "c", "o", "/">>,
    <<"u", "r", "n", ":", "l", "i", ":", "s", "h", "a", "r", "e", ":">>,
    <<"u", "r", "n", ":", "l", "i", ":", "a", "c", "t", "i", "v", "i", "t", "y", ":">>,
    <<"u", "r", "n", ":", "l", "i", ":", "u", "g", "c", "P", "o", "s", "t", ":">>,
    <<"u", "r", "n", "%", "3", "A", "l", "i", "%", "3", "A", "s", "h", "a", "r", "e",
      "%", "3", "A">>,
    <<"u", "r", "n", "%", "2", "5", "3", "A", "l", "i", "%", "2", "5", "3", "A",
      "a", "c", "t", "i", "v", "i", "t", "y", "%", "2", "5", "3", "A">>,
    <<"1">>,
    <<"2", "3">>,
    <<"%", "3">>,
    <<"x">>}

Urls == {Concat(f) : f \in UNION {[1..n -> UrlFragments] : n \in 0..MaxUrlParts}}

UrnInputs == {Str(t) : t \in Urls} \cup {NaN, None, Num(5)}

Unreserved == Range(UpperCase) \cup Range(LowerCase) \cup Range(Digits)
              \cup {"_", ".", "-", "~"}

Ord(c) == (CHOOSE i \in DOMAIN Ascii : Ascii[i] = c) + 31

\* urllib.parse.quote on one character: unreserved characters and / are kept,
\* any other character becomes % and the two hex digits of its code
quote_char(c) ==
    IF c \in Unreserved \cup {"/"} THEN <<c>>
    ELSE <<"%", HexDigits[(Ord(c) \div 16) + 1], HexDigits[(Ord(c) % 16) + 1]>>

\* urllib.parse.quote: percent-encoding
quote(s) == Concat([i \in DOMAIN s |-> quote_char(s[i])])

InitUrn ==
    \E u \in UrnInputs :
        InitWith(File(ConnectionsColumns, <<>>), NoFile, NoFile, Unset, u)

\* extract_urn(url)
ExtractCall ==
    /\ url # Unset
    /\ urn = Unset
    /\ urn' = extract_urn(url)
    /\ UNCHANGED <<pipelineVars, convoVars, position, seniority, url, urn_quoted, urn_again,
                   messages_df>>

\* extract_urn(quote(url)), for a url that is a text
ExtractQuotedCall ==
    /\ url # Unset
    /\ url.kind = "str"
    /\ urn_quoted = Unset
    /\ urn_quoted' = extract_urn(Str(quote(url.s)))
    /\ UNCHANGED <<pipelineVars, convoVars, position, seniority, url, urn, urn_again, messages_df>>

\* extract_urn(extract_urn(url))
ExtractAgainCall ==
    /\ urn # Unset
    /\ urn_again = Unset
    /\ urn_again' = extract_urn(urn)
    /\ UNCHANGED <<pipelineVars, convoVars, position, seniority, url, urn, urn_quoted, messages_df>>

NextUrn == ExtractCall \/ ExtractQuotedCall \/ ExtractAgainCall

SpecUrn == InitUrn /\ [][NextUrn]_vars

\* the three URN kinds of the specification
C6_Kinds == {<<"s", "h", "a", "r", "e">>, <<"a", "c", "t", "i", "v", "i", "t", "y">>,
             <<"u", "g", "c", "P", "o", "s", "t">>}

C6_Digit(c) == c \in {"0", "1", "2", "3", "4", "5", "6", "7", "8", "9"}

C6_Prefixes == {<<"u", "r", "n", ":", "l", "i", ":">> \o k \o <<":">> : k \in C6_Kinds}

\* text d has the prefix w at position i, followed by at least one digit
C6_IdAt(d, i, w) ==
    /\ i + Len(w) <= Len(d)
    /\ SubSeq(d, i, i + Len(w) - 1) = w
    /\ C6_Digit(d[i + Len(w)])

C6_Occurs(d, i) == \E w \in C6_Prefixes : C6_IdAt(d, i, w)

\* r is what the pattern finds in text d: None when no prefix followed by a
\* digit occurs, else the maximal run of digits after the first occurrence
C6_Found(d, r) ==
    IF \E i \in 1..Len(d) : C6_Occurs(d, i)
    THEN /\ r.kind = "str"
         /\ Len(r.s) >= 1
         /\ \A j \in 1..Len(r.s) : C6_Digit(r.s[j])
         /\ \E i \in 1..Len(d), w \in C6_Prefixes :
               /\ C6_IdAt(d, i, w)
               /\ \A h \in 1..(i - 1) : ~C6_Occurs(d, h)
               /\ i + Len(w) + Len(r.s) - 1 <= Len(d)
               /\ SubSeq(d, i + Len(w), i + Len(w) + Len(r.s) - 1) = r.s
               /\ (i + Len(w) + Len(r.s) > Len(d)
                      \/ ~C6_Digit(d[i + Len(w) + Len(r.s)]))
    ELSE r = None

\* C6: extract_urn returns None for an input that is no text and for a text
\* whose percent-decoding (once) holds no urn:li:share:, urn:li:activity: or
\* urn:li:ugcPost: followed by a digit; otherwise it returns the maximal run
\* of digits after the first such occurrence in the decoded text.
C6_ExtractUrn ==
    urn # Unset =>
        IF url.kind = "str" THEN C6_Found(unquote(url.s), urn) ELSE urn = None

\* C6 witness: an identifier was found in a percent-encoded URL
C6_Witness ==
    /\ url = Str(<<"h", "t", "t", "p", "s", ":", "/", "/", "x", ".", "c", "o", "/",
                   "u", "r", "n", "%", "3", "A", "l", "i", "%", "3", "A",
                   "s", "h", "a", "r", "e", "%", "3", "A", "2", "3">>)
    /\ urn = Str(<<"2", "3">>)

\* the text holds a percent escape: % and two hex digits
C7_HasEscape(s) ==
    \E i \in 1..(Len(s) - 2) :
        /\ s[i] = "%"
        /\ \A j \in {i + 1, i + 2} :
              s[j] \in {"0", "1", "2", "3", "4", "5", "6", "7", "8", "9", "A", "B", "C",
                        "D", "E", "F", "a", "b", "c", "d", "e", "f"}

\* C7 as stated: extract_urn of the percent-encoded URL equals extract_urn of
\* the URL, and extract_urn of its own result is that result.
C7_Original ==
    /\ (urn # Unset /\ urn_quoted # Unset) => urn_quoted = urn
    /\ urn_again # Unset => urn_again = urn

\* C7 amended: extract_urn of the percent-encoded URL is what the pattern
\* finds in the URL taken literally, which is extract_urn of the URL when the
\* URL holds no percent escape; extract_urn of its own result is None.
C7_RoundTrip ==
    /\ urn_quoted # Unset =>
          /\ C6_Found(url.s, urn_quoted)
          /\ (urn # Unset /\ ~C7_HasEscape(url.s)) => urn_quoted = urn
    /\ urn_again # Unset => urn_again = None

\* C7 witness: a URL without escapes gave the same identifier directly and
\* percent-encoded, and the identifier itself gave None
C7_Witness ==
    /\ url = Str(<<"u", "r", "n", ":", "l", "i", ":", "u", "g", "c", "P", "o", "s", "t",
                   ":", "2", "3", "x">>)
    /\ urn = Str(<<"2", "3">>)
    /\ urn_quoted = urn
    /\ urn_again = None

-----------------------------------------------------------------------------
(* Export directories for the runs of the script *)

\* the tables of at most n rows drawn from a set of rows
TablesOf(rows, n) == UNION {[1..k -> rows] : k \in 0..n}

T1 == Timestamp(2024, 1, 1, 9)
T2 == Timestamp(2024, 3, 3, 23)
T3 == Timestamp(2023, 2, 28, 0)
Unparsable == Str(<<"n", "o", "t", " ", "a", " ", "d", "a", "t", "e">>)

Blank == Str(<<" ", " ">>)
SomeUrl == Str(<<"h", "t", "t", "p", "s", ":", "/", "/", "x", ".", "c", "o", "/",
                 "m", ".", "p", "n", "g">>)
MemberNetwork == Str(<<"M", "E", "M", "B", "E", "R", "_", "N", "E", "T", "W", "O", "R", "K">>)

\* a text of n one-letter words
Words(n) == [i \in 1..(2 * n - 1) |-> IF i % 2 = 1 THEN "a" ELSE " "]

\* a row of Shares.csv
ShareRow(date, commentary, sharelink, sharedurl, mediaurl) ==
    [c \in SharesColumns |->
        CASE c = "Date" -> date
          [] c = "ShareCommentary" -> commentary
          [] c = "ShareLink" -> sharelink
          [] c = "SharedUrl" -> sharedurl
          [] c = "MediaUrl" -> mediaurl
          [] c = "Visibility" -> MemberNetwork]

\* a row of Comments.csv
CommentRow(date, link) ==
    [c \in CommentsColumns |->
        CASE c = "Date" -> date
          [] c = "Message" -> Str(<<"N", "i", "c", "e", " ", "p", "o", "s", "t">>)
          [] c = "Link" -> link]

\* a row without one column
Without(r, col) == [c \in (DOMAIN r) \ {col} |-> r[c]]

CEO == Str(<<"C", "E", "O">>)
SeniorEngineer == Str(<<"S", "e", "n", "i", "o", "r", " ", "E", "n", "g", "i", "n", "e", "e", "r">>)
DirectorOfSales == Str(<<"D", "i", "r", "e", "c", "t", "o", "r", " ", "o", "f", " ",
                         "S", "a", "l", "e", "s">>)

OneConnection == File(ConnectionsColumns, <<ConnectionRow(Ada, Lovelace, Acme, CEO, T3)>>)

(* Spec: connections of several titles, shares of several dates *)

MaxConnections == 3
MaxShares == 2

SpecConnRows == {ConnectionRow(Ada, Lovelace, Acme, t, T3) :
                    t \in {CEO, SeniorEngineer, DirectorOfSales, NaN}}

SpecShareRows == {ShareRow(d, Str(<<"a", " ", "b">>), NaN, NaN, NaN) :
                     d \in {Unparsable, T1, T2}}

Init ==
    \E c \in TablesOf(SpecConnRows, MaxConnections),
       sh \in {NoFile} \cup {File(SharesColumns, t) : t \in TablesOf(SpecShareRows, MaxShares)} :
        InitWith(File(ConnectionsColumns, c), sh, NoFile, Unset, Unset)

Spec == Init /\ [][Next]_vars

(* SpecPostType: shares of every combination of media, link and word count *)

MaxTypeRows == 1

TypeCommentaries == {NaN, Str(Words(1)), Str(Words(100)), Str(Words(101)),
                     Str(<<Quote, Quote, Quote>>)}

TypeRows == {ShareRow(T1, c, NaN, l, m) :
                c \in TypeCommentaries, l \in {NaN, Blank, SomeUrl},
                m \in {NaN, Blank, SomeUrl}}

InitPostType ==
    \E t \in TablesOf(TypeRows, MaxTypeRows) :
        InitWith(OneConnection, File(SharesColumns, t), NoFile, Unset, Unset)

SpecPostType == InitPostType /\ [][NextEnrich]_vars

(* SpecWordCount: shares with word counts on both sides of every boundary *)

MaxBucketRows == 2

BucketRows == {ShareRow(T1, c, NaN, NaN, NaN) :
                  c \in {NaN} \cup {Str(Words(n)) :
                                       n \in {1, 50, 51, 100, 101, 200, 201, 300, 301}}}

InitWordCount ==
    \E t \in TablesOf(BucketRows, MaxBucketRows) :
        InitWith(OneConnection, File(SharesColumns, t), NoFile, Unset, Unset)

SpecWordCount == InitWordCount /\ [][Next]_vars

(* SpecPosts: shares with and without a timestamp, of several commentaries *)

MaxPostRows == 2

PostCommentaries == {
    NaN,
    Str(<<"a", " ", "b">>),
    Str(<<Quote, "a", " ", "b", Quote>>),
    Str(<<" ", "a", "\t", "b", "\n", "c", " ">>),
    Str(<<Quote, " ", "a", " ", Quote>>),
    Str(<<Quote, Quote>>)}

PostRows == {ShareRow(d, c, NaN, NaN, NaN) :
                d \in {NaN, Unparsable, T1, T2, T3}, c \in PostCommentaries}

InitPosts ==
    \E t \in TablesOf(PostRows, MaxPostRows) :
        InitWith(OneConnection, File(SharesColumns, t), NoFile, Unset, Unset)

SpecPosts == InitPosts /\ [][NextEnrich]_vars

(* SpecComments: shares and comments whose links hold, or do not hold, an    *)
(* identifier; files without the link column                                 *)

MaxLinkedShares == 2
MaxComments == 2

Links == {
    NaN,
    Str(<<"h", "t", "t", "p", "s", ":", "/", "/", "x", ".", "c", "o", "/">>),
    Str(<<"u", "r", "n", ":", "l", "i", ":", "s", "h", "a", "r", "e", ":", "1">>),
    Str(<<"u", "r", "n", "%", "3", "A", "l", "i", "%", "3", "A", "a", "c", "t", "i", "v",
          "i", "t", "y", "%", "3", "A", "1">>),
    Str(<<"u", "r", "n", ":", "l", "i", ":", "u", "g", "c", "P", "o", "s", "t", ":",
          "2", "3">>)}

LinkedShareRows == {ShareRow(T1, NaN, l, NaN, NaN) : l \in Links}

LinkedCommentRows == {CommentRow(T2, l) : l \in Links}

LinkedShareFiles ==
    {File(SharesColumns, t) : t \in TablesOf(LinkedShareRows, MaxLinkedShares)}
    \cup {File(SharesColumns \ {"ShareLink"},
               <<Without(ShareRow(T1, NaN, NaN, NaN, NaN), "ShareLink")>>)}

LinkedCommentFiles ==
    {File(CommentsColumns, t) : t \in TablesOf(LinkedCommentRows, MaxComments)}
    \cup {File(CommentsColumns \ {"Link"}, <<Without(CommentRow(T2, NaN), "Link")>>),
          NoFile}

InitComments ==
    \E sh \in LinkedShareFiles, co \in LinkedCommentFiles :
        InitWith(OneConnection, sh, co, Unset, Unset)

SpecComments == InitComments /\ [][NextEnrich]_vars

-----------------------------------------------------------------------------
(* The claims about the posts and the chart data *)

\* enrich_posts has run
Enriched ==
    pc \in {"enriched", "all_connections", "companies", "seniority", "growth",
            "activity", "day", "hour", "positions", "charts", "dormant", "stats",
            "rendered", "opened", "written", "report"}

\* the rows of a table that have a timestamp, in the table's order
RowsWithTimestamp(df) == SelectSeq(df.rows, LAMBDA r : r["Date"].kind = "ts")

\* the cell of column col is a text with a character that is no whitespace
NonBlank(r, col) ==
    /\ col \in DOMAIN r
    /\ r[col].kind = "str"
    /\ \E j \in DOMAIN r[col].s : r[col].s[j] \notin {" ", "\t", "\n", "\r"}

PostTypes == {"Media", "Link Share", "Long Text", "Short Text", "Repost"}

\* C3: the type of every post is given by the first rule that applies: a
\* non-blank MediaUrl gives Media, else a non-blank SharedUrl gives Link
\* Share, else more than 100 words give Long Text, else more than 0 words
\* give Short Text, else Repost; the type is one of the five; a post of
\* exactly 100 words without media and link is Short Text.
C3_PostType ==
    Enriched =>
        LET rows == RowsWithTimestamp(shares_df)
        IN  /\ Len(posts_list_full) = Len(rows)
            /\ \A i \in DOMAIN posts_list_full :
                  LET post == posts_list_full[i]
                  IN  /\ post.type \in PostTypes
                      /\ post.type =
                            IF NonBlank(rows[i], "MediaUrl") THEN "Media"
                            ELSE IF NonBlank(rows[i], "SharedUrl") THEN "Link Share"
                            ELSE IF post.wordCount > 100 THEN "Long Text"
                            ELSE IF post.wordCount > 0 THEN "Short Text"
                            ELSE "Repost"
                      /\ (post.wordCount = 100 /\ ~NonBlank(rows[i], "MediaUrl")
                              /\ ~NonBlank(rows[i], "SharedUrl"))
                         => post.type = "Short Text"

\* C3 witness: a post of exactly 100 words without media and link
C3_Witness ==
    /\ Enriched
    /\ \E i \in DOMAIN posts_list_full :
          /\ posts_list_full[i].wordCount = 100
          /\ posts_list_full[i].type = "Short Text"
          /\ ~NonBlank(shares_df.rows[i], "MediaUrl")
          /\ ~NonBlank(shares_df.rows[i], "SharedUrl")

\* C4 as stated: the word count of a post is 0 exactly when its type is Repost.
C4_Original ==
    Enriched =>
        \A i \in DOMAIN posts_list_full :
            posts_list_full[i].wordCount = 0 <=> posts_list_full[i].type = "Repost"

\* C4 amended: the type of a post is Repost exactly when its word count is 0
\* and it has neither a non-blank MediaUrl nor a non-blank SharedUrl; so every
\* Repost has word count 0, and a post of word count 0 with media or a link
\* is Media or Link Share.
C4_RepostIffEmpty ==
    Enriched =>
        LET rows == RowsWithTimestamp(shares_df)
        IN  /\ Len(posts_list_full) = Len(rows)
            /\ \A i \in DOMAIN posts_list_full :
                  LET post == posts_list_full[i]
                  IN  /\ post.type = "Repost" <=>
                            (post.wordCount = 0 /\ ~NonBlank(rows[i], "MediaUrl")
                                /\ ~NonBlank(rows[i], "SharedUrl"))
                      /\ post.type = "Repost" => post.wordCount = 0

\* C4 witness: a post of word count 0 that has a link and is a Link Share
C4_Witness ==
    /\ Enriched
    /\ \E i \in DOMAIN posts_list_full :
          /\ posts_list_full[i].wordCount = 0
          /\ posts_list_full[i].type = "Link Share"
          /\ NonBlank(shares_df.rows[i], "SharedUrl")

\* the six buckets of the specification: label, least and greatest word count
\* (the last bucket has no greatest word count)
C5_Buckets == <<
    [label |-> "0 (Repost)", lo |-> 0, hi |-> 0, open |-> FALSE],
    [label |-> "1-50", lo |-> 1, hi |-> 50, open |-> FALSE],
    [label |-> "51-100", lo |-> 51, hi |-> 100, open |-> FALSE],
    [label |-> "101-200", lo |-> 101, hi |-> 200, open |-> FALSE],
    [label |-> "201-300", lo |-> 201, hi |-> 300, open |-> FALSE],
    [label |-> "300+", lo |-> 301, hi |-> 301, open |-> TRUE]>>

C5_InBucket(w, k) ==
    /\ C5_Buckets[k].lo <= w
    /\ (C5_Buckets[k].open \/ w <= C5_Buckets[k].hi)

RECURSIVE SumSeq(_)
SumSeq(q) == IF q = <<>> THEN 0 ELSE Head(q) + SumSeq(Tail(q))

\* C5: the histogram lists the six buckets in order; the value of a bucket is
\* the number of posts whose word count lies in its range, upper bound
\* included; every word count lies in exactly one range; the values sum to
\* the number of posts.
C5_Histogram ==
    pc = "charts" =>
        /\ word_count_data.labels = [k \in DOMAIN C5_Buckets |-> C5_Buckets[k].label]
        /\ DOMAIN word_count_data.values = DOMAIN C5_Buckets
        /\ \A k \in DOMAIN C5_Buckets :
              word_count_data.values[k] =
                  Cardinality({i \in DOMAIN posts_list :
                                  C5_InBucket(posts_list[i].wordCount, k)})
        /\ \A i \in DOMAIN posts_list :
              Cardinality({k \in DOMAIN C5_Buckets :
                              C5_InBucket(posts_list[i].wordCount, k)}) = 1
        /\ SumSeq(word_count_data.values) = Len(posts_list)

\* C5 witness: posts of 300 and of 301 words, counted in the last two buckets
C5_Witness ==
    /\ pc = "charts"
    /\ \E i, j \in DOMAIN posts_list :
          posts_list[i].wordCount = 300 /\ posts_list[j].wordCount = 301
    /\ word_count_data.values = <<0, 0, 0, 0, 1, 1>>

\* the identifier of a link cell; None for a row without the column
C8_Id(r, col) == IF col \in DOMAIN r THEN extract_urn(r[col]) ELSE None

\* C8: the comment count of a post is the number of rows of the comments
\* table whose Link gives the identifier the post's ShareLink gives; it is 0
\* when the ShareLink gives no identifier, when no comment gives that
\* identifier, and when the comments table has no Link column.  A comment
\* whose Link gives no identifier is counted for no post.
C8_CommentCount ==
    Enriched =>
        LET rows == RowsWithTimestamp(shares_df)
            withId == {j \in DOMAIN comments_df.rows :
                          C8_Id(comments_df.rows[j], "Link") # None}
        IN  /\ Len(posts_list_full) = Len(rows)
            /\ \A i \in DOMAIN posts_list_full :
                  LET id == C8_Id(rows[i], "ShareLink")
                  IN  posts_list_full[i].comments =
                          IF id = None \/ "Link" \notin comments_df.columns THEN 0
                          ELSE Cardinality({j \in withId :
                                               C8_Id(comments_df.rows[j], "Link") = id})
            /\ \A i \in DOMAIN posts_list_full :
                  posts_list_full[i].comments <= Cardinality(withId)

\* C8 witness: a post with two comments, one of them under a percent-encoded
\* link of another URN kind, beside a post without an identifier
C8_Witness ==
    /\ Enriched
    /\ Len(posts_list_full) = 2
    /\ posts_list_full[1].comments = 2
    /\ posts_list_full[2].comments = 0
    /\ comments_df.rows[1]["Link"] # comments_df.rows[2]["Link"]
    /\ C8_Id(shares_df.rows[2], "ShareLink") = None

\* date text, weekday and hour of the timestamps of the export directories
C9_Known(t) ==
    CASE t = T1 -> [date |-> <<"2", "0", "2", "4", "-", "0", "1", "-", "0", "1">>,
                    day |-> "Monday", hour |-> 9]
      [] t = T2 -> [date |-> <<"2", "0", "2", "4", "-", "0", "3", "-", "0", "3">>,
                    day |-> "Sunday", hour |-> 23]
      [] t = T3 -> [date |-> <<"2", "0", "2", "3", "-", "0", "2", "-", "2", "8">>,
                    day |-> "Tuesday", hour |-> 0]

\* the number of maximal runs of non-whitespace in a text
C9_Tokens(text) ==
    Cardinality({i \in DOMAIN text :
                    /\ text[i] \notin {" ", "\t", "\n", "\r"}
                    /\ (i = 1 \/ text[i - 1] \in {" ", "\t", "\n", "\r"})})

\* C9: enrich_posts returns one record for each row of the shares table that
\* has a timestamp, in the order of the rows, and none for a row without;
\* date, weekday and hour of a record are those of the row's timestamp; the
\* word count is the number of whitespace-delimited tokens of the cleaned
\* commentary, 0 for a missing commentary.
C9_OnePostPerRow ==
    Enriched =>
        LET rows == RowsWithTimestamp(shares_df)
        IN  /\ Len(posts_list_full) = Len(rows)
            /\ \A i \in DOMAIN posts_list_full :
                  LET post == posts_list_full[i]
                      known == C9_Known(rows[i]["Date"])
                  IN  /\ post.date = known.date
                      /\ post.day = known.day
                      /\ post.hour = known.hour
                      /\ post.wordCount = C9_Tokens(post.content)
                      /\ rows[i]["ShareCommentary"] = NaN => post.wordCount = 0
                      /\ post.link = <<>>
                      /\ post.visibility = rows[i]["Visibility"].s

\* C9 witness: of two rows the first has no timestamp; the one record is that
\* of the second row, a Sunday post of three words
C9_Witness ==
    /\ Enriched
    /\ Len(shares_df.rows) = 2
    /\ shares_df.rows[1]["Date"] = NaT
    /\ Len(posts_list_full) = 1
    /\ posts_list_full[1].day = "Sunday"
    /\ posts_list_full[1].wordCount = 3

\* C10: the seniority aggregate lists the eight tiers in the canonical order
\* and the weekday aggregate Monday..Sunday; a value is the number of
\* connections of that tier (posts of that weekday), 0 when there is none;
\* the seniority values sum to the number of connections; the titles CEO,
\* Senior Engineer, Director of Sales give 1 C-Level / Founder, 1 Senior IC,
\* 1 Director and 0 elsewhere.
C10_FixedOrder ==
    pc = "charts" =>
        /\ seniority_data.labels =
              <<"C-Level / Founder", "VP", "Director", "Head of", "Manager / Lead",
                "Senior IC", "IC / Specialist", "Junior / Associate">>
        /\ DOMAIN seniority_data.values = 1..8
        /\ \A k \in 1..8 :
              seniority_data.values[k] =
                  Cardinality({i \in DOMAIN conn_df.rows :
                                  conn_df.rows[i]["Seniority"] = seniority_data.labels[k]})
        /\ SumSeq(seniority_data.values) = Len(fs["Connections.csv"].rows)
        /\ [i \in DOMAIN fs["Connections.csv"].rows |->
               fs["Connections.csv"].rows[i]["Position"]]
              = <<CEO, SeniorEngineer, DirectorOfSales>>
           => seniority_data.values = <<1, 0, 1, 0, 0, 1, 0, 0>>
        /\ day_data.labels = <<"Monday", "Tuesday", "Wednesday", "Thursday", "Friday",
                               "Saturday", "Sunday">>
        /\ DOMAIN day_data.values = 1..7
        /\ \A k \in 1..7 :
              day_data.values[k] =
                  Cardinality({i \in DOMAIN posts_list :
                                  posts_list[i].day = day_data.labels[k]})

\* C10 witness: the three titles of the example, and two posts on a Monday
C10_Witness ==
    /\ pc = "charts"
    /\ [i \in DOMAIN conn_df.rows |-> conn_df.rows[i]["Position"]]
          = <<CEO, SeniorEngineer, DirectorOfSales>>
    /\ seniority_data.values = <<1, 0, 1, 0, 0, 1, 0, 0>>
    /\ day_data.values = <<2, 0, 0, 0, 0, 0, 0>>

-----------------------------------------------------------------------------
(* SpecGrowth: connections of several dates, with and without a timestamp,   *)
(* in months that leave a gap and in two years                               *)

MaxGrowthRows == 3

T4 == Timestamp(2024, 1, 31, 0)

GrowthRows == {ConnectionRow(Ada, Lovelace, Acme, CEO, d) :
                  d \in {NaN, Unparsable, T3, T1, T4, T2}}

InitGrowth ==
    \E c \in TablesOf(GrowthRows, MaxGrowthRows) :
        InitWith(File(ConnectionsColumns, c), NoFile, NoFile, Unset, Unset)

SpecGrowth == InitGrowth /\ [][Next]_vars

\* GrowthData has run
Grown ==
    pc \in {"growth", "activity", "day", "hour", "positions", "charts", "dormant",
            "stats", "rendered", "opened", "written"}

C11_DigitValue(c) ==
    CASE c = "0" -> 0 [] c = "1" -> 1 [] c = "2" -> 2 [] c = "3" -> 3 [] c = "4" -> 4
      [] c = "5" -> 5 [] c = "6" -> 6 [] c = "7" -> 7 [] c = "8" -> 8 [] c = "9" -> 9

\* the months from year 0 to the month a label YYYY-MM names
C11_MonthNumber(l) ==
    12 * (1000 * C11_DigitValue(l[1]) + 100 * C11_DigitValue(l[2])
              + 10 * C11_DigitValue(l[3]) + C11_DigitValue(l[4]))
        + 10 * C11_DigitValue(l[6]) + C11_DigitValue(l[7])

\* the rows of the loaded connections that have a connection date
C11_Dated == {i \in DOMAIN conn_df.rows : conn_df.rows[i]["Connected On"].kind = "ts"}

\* C11: the labels of the monthly growth series are months in chronological
\* order; the new-count of a month is the number of connections connected in
\* it; the cumulative value of a month is the sum of the new-counts up to it;
\* the cumulative series never decreases; its last value is the number of
\* connections with a connection date, which is also the sum of the yearly
\* counts (a series without a month stands for no such connection).
C11_Growth ==
    Grown =>
        LET g == growth_data
        IN  /\ DOMAIN g.new = DOMAIN g.labels
            /\ DOMAIN g.cumulative = DOMAIN g.labels
            /\ \A k \in DOMAIN g.labels :
                  /\ Len(g.labels[k]) = 7
                  /\ k > 1 => C11_MonthNumber(g.labels[k - 1]) < C11_MonthNumber(g.labels[k])
                  /\ g.new[k] =
                        Cardinality({i \in C11_Dated :
                            SubSeq(strftime_Ymd(conn_df.rows[i]["Connected On"]), 1, 7)
                                = g.labels[k]})
                  /\ g.cumulative[k] = SumSeq(SubSeq(g.new, 1, k))
                  /\ k > 1 => g.cumulative[k - 1] <= g.cumulative[k]
            /\ IF g.labels = <<>> THEN C11_Dated = {}
               ELSE g.cumulative[Len(g.cumulative)] = Cardinality(C11_Dated)
            /\ SumSeq(yearly_data.values) = Cardinality(C11_Dated)

\* C11 witness: three connections, one without a date, the others in months
\* of two years with empty months between them
C11_Witness ==
    /\ Grown
    /\ Len(conn_df.rows) = 3
    /\ Cardinality(C11_Dated) = 2
    /\ Len(growth_data.labels) = 12
    /\ growth_data.new[1] = 1
    /\ growth_data.new[2] = 0
    /\ growth_data.cumulative[12] = 2
    /\ yearly_data.values = <<1, 1>>

-----------------------------------------------------------------------------
(* SpecOptional: export directories in which each of Shares.csv,            *)
(* Comments.csv, Reactions.csv, Profile.csv and messages.csv is present or   *)
(* absent; load_messages is called as load_all calls it.                    *)

\* linkedin_data.py:244: load_messages(export_dir)
LoadMessagesCall ==
    /\ fs # Unset
    /\ messages_df = Unset
    /\ messages_df' = load_messages(fs["messages.csv"])
    /\ UNCHANGED <<pipelineVars, convoVars, position, seniority, url, urn, urn_quoted, urn_again>>

ProfileColumns == {"First Name", "Last Name", "Headline"}

ProfileRow(first, last, headline) ==
    [c \in ProfileColumns |->
        CASE c = "First Name" -> first
          [] c = "Last Name" -> last
          [] c = "Headline" -> headline]

MessagesColumns == {"CONVERSATION ID", "FROM", "TO", "DATE", "CONTENT"}

MessageRow(date) ==
    [c \in MessagesColumns |->
        CASE c = "CONVERSATION ID" -> Str(<<"1">>)
          [] c = "FROM" -> Ada
          [] c = "TO" -> Lovelace
          [] c = "DATE" -> date
          [] c = "CONTENT" -> Str(<<"H", "i">>)]

Like == Str(<<"L", "I", "K", "E">>)

ReactionRow(date, type, link) ==
    [c \in ReactionsColumns |->
        CASE c = "Date" -> date
          [] c = "Type" -> type
          [] c = "Link" -> link]

OptionalShares == {NoFile, File(SharesColumns, <<ShareRow(T1, Str(Words(2)), NaN, NaN, NaN)>>)}

OptionalComments == {NoFile, File(CommentsColumns, <<CommentRow(T2, NaN)>>)}

OptionalReactions == {NoFile, File(ReactionsColumns, <<ReactionRow(T2, Like, NaN)>>)}

OptionalProfiles == {
    NoFile,
    File(ProfileColumns, <<>>),
    File(ProfileColumns, <<ProfileRow(Ada, Lovelace, Str(<<"C", "T", "O">>))>>),
    File(ProfileColumns, <<ProfileRow(Ada, NaN, NaN)>>)}

OptionalMessages == {NoFile, File(MessagesColumns, <<MessageRow(T1)>>)}

InitOptional ==
    \E sh \in OptionalShares, co \in OptionalComments, re \in OptionalReactions,
       pr \in OptionalProfiles, me \in OptionalMessages :
        InitRun(<<ExportDir("data exports", BasicExport, 1,
                            FilesOf(OneConnection, sh, co, re, pr, me))>>,
                EarlyClock, NoOutput, Unset, Unset)

NextOptional == Next \/ LoadMessagesCall

SpecOptional ==
    InitOptional /\ [][NextOptional]_vars

\* the steps of the script after which a table is loaded
Reached(step) ==
    LET order == <<"find", "start", "connections", "shares", "comments", "reactions",
                   "profile", "enriched", "all_connections", "companies", "seniority",
                   "growth", "activity", "day", "hour", "positions", "charts",
                   "dormant", "stats", "rendered", "opened", "written">>
        at(x) == CHOOSE k \in DOMAIN order : order[k] = x
    IN  pc \in Range(order) /\ at(pc) >= at(step)

\* the table is empty, has these columns, and its Date column is a datetime
C12_EmptyTyped(df, columns) ==
    /\ df.rows = <<>>
    /\ df.columns = columns
    /\ "Date" \in df.columns
    /\ df.Date = "datetime64[ns]"

\* C12: with any of the optional files absent no loader raises: the loader of
\* an absent Shares.csv, Comments.csv or Reactions.csv returns an empty table
\* with the expected columns and a datetime Date column, that of an absent
\* Profile.csv returns no profile and the report is named Your Network, that
\* of an absent messages.csv returns an empty table; the run has a next
\* statement to execute until the final write, and the page written reports
\* zero posts, comments and reactions for the absent files.
C12_OptionalAbsent ==
    /\ pc # "raised"
    /\ pc # "written" => ENABLED Next
    /\ (Reached("shares") /\ ~fs["Shares.csv"].exists)
       => C12_EmptyTyped(shares_df, {"Date", "ShareCommentary", "ShareLink",
                                     "SharedUrl", "MediaUrl", "Visibility"})
    /\ (Reached("comments") /\ ~fs["Comments.csv"].exists)
       => C12_EmptyTyped(comments_df, {"Date", "Message", "Link"})
    /\ (Reached("reactions") /\ ~fs["Reactions.csv"].exists)
       => C12_EmptyTyped(reactions_df, {"Date", "Type", "Link"})
    /\ (Reached("profile") /\ ~fs["Profile.csv"].exists)
       => /\ profile_df = None
          /\ profile_name = <<"Y", "o", "u", "r", " ", "N", "e", "t", "w", "o", "r", "k">>
    /\ (messages_df # Unset /\ ~fs["messages.csv"].exists)
       => messages_df.rows = <<>>
    /\ pc = "written" =>
          LET reported == output.content[1]
          IN  /\ ~fs["Shares.csv"].exists =>
                    reported.stats.total_posts = 0 /\ reported.allPosts = <<>>
              /\ ~fs["Comments.csv"].exists => reported.stats.total_comments = 0
              /\ ~fs["Reactions.csv"].exists => reported.stats.total_reactions = 0
              /\ ~fs["Profile.csv"].exists => reported.profile_name = <<"Y", "o", "u", "r", " ", "N", "e", "t", "w", "o", "r", "k">>

\* C12 witness: the page was written for an export directory with none of
\* the five optional files
C12_Witness ==
    /\ pc = "written"
    /\ \A f \in FileNames \ {"Connections.csv"} : ~fs[f].exists
    /\ output.writes = 1
    /\ output.content[1].stats.total_posts = 0
    /\ output.content[1].stats.total_comments = 0
    /\ output.content[1].stats.total_reactions = 0
    /\ output.content[1].stats.total_connections = 1
    /\ output.content[1].profile_name = <<"Y", "o", "u", "r", " ", "N", "e", "t", "w", "o", "r", "k">>
    /\ messages_df = [columns |-> {}, rows |-> <<>>]

-----------------------------------------------------------------------------
(* SpecExport: project directories listing up to MaxEntries entries: export  *)
(* directories in either search place, with and without Connections.csv,     *)
(* a directory of another name, and the zip archive of an export.            *)

MaxEntries == 2

CompleteExport == <<"C", "o", "m", "p", "l", "e", "t", "e", "_", "L", "i", "n", "k", "e", "d", "I", "n", "D", "a", "t", "a", "E", "x", "p", "o", "r", "t", "_", "0", "2", "-", "0", "2", "-", "2", "0", "2", "5">>

BasicZip == <<"B", "a", "s", "i", "c", "_", "L", "i", "n", "k", "e", "d", "I", "n", "D", "a", "t", "a", "E", "x", "p", "o", "r", "t", "_", "0", "1", "-", "0", "1", "-", "2", "0", "2", "5", ".", "z", "i", "p">>

OtherDir == <<"L", "i", "n", "k", "e", "d", "I", "n", "D", "a", "t", "a", "E", "x", "p", "o", "r", "t">>

ExportEntries == {
    ExportDir("base", CompleteExport, 1,
              FilesOf(OneConnection, NoFile, NoFile, NoFile, NoFile, NoFile)),
    ExportDir("data exports", BasicExport, 2,
              FilesOf(OneConnection, NoFile, NoFile, NoFile, NoFile, NoFile)),
    ExportDir("base", BasicExport, 3,
              FilesOf(NoFile, File(SharesColumns, <<ShareRow(T1, Str(Words(2)), NaN, NaN, NaN)>>),
                      NoFile, NoFile, NoFile, NoFile)),
    ExportDir("base", OtherDir, 4,
              FilesOf(OneConnection, NoFile, NoFile, NoFile, NoFile, NoFile)),
    ZipFile("data exports", BasicZip, 4)}

InitExport ==
    \E entries \in TablesOf(ExportEntries, MaxEntries), out \in {NoOutput, StaleOutput} :
        InitRun(entries, EarlyClock, out, Unset, Unset)

SpecExport == InitExport /\ [][Next]_vars

\* the connection list cannot be located: no export directory matches, or
\* the chosen one has no Connections.csv
C13_NotLocated ==
    LET found == find_export_dir(base_dir)
    IN  found.raised \/ ~base_dir[found.dir].files["Connections.csv"].exists

\* C13: whenever the connection list cannot be located (no export directory
\* matches the naming convention, or the chosen export directory has no
\* Connections.csv) the run aborts with the 'No LinkedIn export found' error,
\* whose message names the expected location convention, before any other
\* table is loaded and before the output file is written.
C13_ExportNotFound ==
    /\ C13_NotLocated => pc \in {"find", "start", "raised"}
    /\ pc = "raised" =>
          /\ C13_NotLocated
          /\ error.type = "FileNotFoundError"
          /\ error.message = "No LinkedIn export found. Place your LinkedInDataExport folder in the project directory or 'data exports' subfolder."
          /\ conn_df = Unset /\ shares_df = Unset /\ comments_df = Unset
          /\ reactions_df = Unset /\ profile_df = Unset
          /\ output.opens = 0 /\ output.writes = 0

-----------------------------------------------------------------------------
(* The report's connection view (build_dashboard.py:688-800): the script of  *)
(* the written page, run by a browser that opens it.                         *)

\* String.prototype.trim
trim(s) == strip(s)

\* String.prototype.includes
includes(s, w) == Contains(w, s)

\* String.prototype.toLowerCase
toLowerCase(s) == lower(s)

RECURSIVE digits_value(_)
\* the number a text of decimal digits denotes
digits_value(s) ==
    IF s = <<>> THEN 0
    ELSE 10 * digits_value(SubSeq(s, 1, Len(s) - 1))
         + (CHOOSE d \in 0..9 : Digits[d + 1] = s[Len(s)])

\* parseInt(s): the number of the leading decimal digits, NaN without any
parseInt(s) ==
    LET stops == {i \in DOMAIN s : ~IsDigit(s[i])}
        n == IF stops = {} THEN Len(s)
             ELSE (CHOOSE i \in stops : \A j \in stops : i <= j) - 1
    IN  IF n = 0 THEN NaN ELSE [kind |-> "int", n |-> digits_value(SubSeq(s, 1, n))]

FilterTypes == {"seniority", "company", "year", "position"}

\* build_dashboard.py:758
labelMap ==
    [type \in FilterTypes |->
        CASE type = "seniority" -> "Seniority"
          [] type = "company" -> "Company"
          [] type = "year" -> "Year"
          [] type = "position" -> "Position"]

\* build_dashboard.py:706-710: the options of the select connFilterValue
filter_options(page, type) ==
    CASE type = "seniority" -> Range(page.uniqueSeniorities)
      [] type = "company" -> page.uniqueCompanies
      [] type = "year" -> {IntText(page.uniqueYears[i]) : i \in DOMAIN page.uniqueYears}

\* the values a select with these options can have: one of them, or the
\* empty text when it has none
select_values(options) == IF options = {} THEN {<<>>} ELSE options

\* build_dashboard.py:773-776: the test of one filter on a connection
filter_test(c, f) ==
    CASE f.type = "seniority" -> c.seniority = f.value
      [] f.type = "company" -> c.company = f.value
      [] f.type = "year" -> LET n == parseInt(f.value)
                            IN  n.kind = "int" /\ c.year = n.n
      [] f.type = "position" -> includes(toLowerCase(c.position), toLowerCase(f.value))

\* the rows that pass any of the filters
apply_filters_any(data, filters) ==
    IF filters = <<>> THEN data
    ELSE SelectSeq(data, LAMBDA c : \E i \in DOMAIN filters : filter_test(c, filters[i]))

RECURSIVE apply_filters(_, _)
\* build_dashboard.py:772-777: connFilters.forEach(f => data = data.filter(...))
apply_filters(data, filters) ==
    IF filters = <<>> THEN data
    ELSE apply_filters(SelectSeq(data, LAMBDA c : filter_test(c, Head(filters))),
                       Tail(filters))

\* build_dashboard.py:768-782: data after the filters and the search
connections_data(page, filters, search) ==
    LET q == toLowerCase(search)
        data == apply_filters(page.allConnections, filters)
    IN  IF q # <<>>
        THEN SelectSeq(data, LAMBDA c : \/ includes(toLowerCase(c.name), q)
                                        \/ includes(toLowerCase(c.company), q)
                                        \/ includes(toLowerCase(c.position), q))
        ELSE data

\* build_dashboard.py:787: data.slice(0, 500)
RowCap == 500

\* The indicator row with the cap set one row too low.
more_row_ge(data) ==
    IF Len(data) >= RowCap THEN [showing |-> RowCap, of |-> Len(data)] ELSE None

\* build_dashboard.py:795: the last row of the table, 'Showing 500 of N',
\* written only when more than 500 rows are left after filters and search.
more_row(data) ==
    IF Len(data) > RowCap THEN [showing |-> RowCap, of |-> Len(data)] ELSE None

\* build_dashboard.py:784: the text of connResultCount, 'n of N connections',
\* kept as its two numbers (their digits are grouped as the locale says).
result_count(page, data) == [shown |-> Len(data), total |-> page.totalConn]

\* build_dashboard.py:745-756: the tags of the filter bar, each with its
\* label, its value and the data-idx of its remove button
renderConnFilters(filters) ==
    [i \in DOMAIN filters |->
        [label |-> labelMap[filters[i].type], value |-> filters[i].value, idx |-> i - 1]]

\* Array.prototype.splice(idx, 1)
splice1(a, idx) == SubSeq(a, 1, idx) \o SubSeq(a, idx + 2, Len(a))

MaxFilters == 2

\* the texts typed into connFilterText and connSearch
PositionTexts == {<<" ", " ">>, <<" ", "c", "e", "o", " ">>, <<"E", "n", "g">>}

SearchTexts == {<<>>, <<"A", "D", "A">>, <<"e">>, <<" ">>}

\* the texts typed into postSearch
PostSearchTexts == {<<>>, <<"Z">>, <<"B", "a">>, <<".", ".", ".">>}

\* the page the browser opened
page_opened == output.content[1]

\* build_dashboard.py:617: [...new Set(allPosts.map(p => p.type))], the types
\* of the posts, each once, in the order of their first post
postTypes(page) ==
    LET t == [i \in DOMAIN page.allPosts |-> page.allPosts[i].type]
        firsts == Ascending({i \in DOMAIN t : \A j \in 1..(i - 1) : t[j] # t[i]})
    IN  [k \in DOMAIN firsts |-> t[firsts[k]]]

\* build_dashboard.py:618-620: the pills of postTypePills, 'All' active
post_pills(page) ==
    <<[type |-> "all", active |-> TRUE]>>
    \o [k \in DOMAIN postTypes(page) |-> [type |-> postTypes(page)[k], active |-> FALSE]]

\* build_dashboard.py:622-627: renderPosts, the posts of the selected type
\* whose preview contains the search text
posts_filtered(page, typeFilter, search) ==
    LET q == toLowerCase(search)
        of_type == IF typeFilter # "all"
                   THEN SelectSeq(page.allPosts, LAMBDA p : p.type = typeFilter)
                   ELSE page.allPosts
    IN  IF q # <<>>
        THEN SelectSeq(of_type, LAMBDA p : includes(toLowerCase(p.preview), q))
        ELSE of_type

\* build_dashboard.py:340-348: the links of nav, by their data-section
nav_links == <<"overview", "connections", "companies", "seniority", "growth",
               "posts", "activity", "clusters", "dormant">>

\* build_dashboard.py:355-475: the ids of the elements of class section
sections == {"overview", "connections", "companies", "seniority", "growth",
             "posts", "activity", "clusters", "dormant"}

\* the browser opens the written page: build_dashboard.py:691 and 800
OpenReport ==
    /\ pc = "written"
    /\ pc' = "report"
    /\ connFilters' = <<>>
    /\ connSearch' = <<>>
    /\ filter_tags' = <<>>
    /\ conn_data' = connections_data(page_opened, connFilters', connSearch')
    /\ conn_table' = head(conn_data', RowCap)
    /\ conn_more' = more_row(conn_data')
    /\ conn_count' = result_count(page_opened, conn_data')
    /\ postTypeFilter' = "all"
    /\ postSearch' = <<>>
    /\ postPills' = post_pills(page_opened)
    /\ posts_shown' = posts_filtered(page_opened, postTypeFilter', postSearch')
    /\ post_count' = Len(posts_shown')
    /\ nav_active' = {"overview"}
    /\ section_active' = {"overview"}
    /\ UNCHANGED <<fs, EXPORT_DIR, error, envVars, tableVars, postVars, connVars,
                   dormantVars, outVars,
                   companies_data, seniority_data, growth_data, yearly_data,
                   activity_data, day_data, hour_data, clusters_data, positions_data,
                   post_type_data, posts_monthly_data, word_count_data, callVars>>

\* A slip: Apply without the two early returns
connApplyFilter_unchecked ==
    /\ pc = "report"
    /\ Len(connFilters) < MaxFilters
    /\ \E type \in FilterTypes :
       \E input \in IF type = "position" THEN PositionTexts
                    ELSE select_values(filter_options(page_opened, type)) :
          LET value == IF type = "position" THEN trim(input) ELSE input
          IN  /\ connFilters' = Append(connFilters, [type |-> type, value |-> value])
    /\ filter_tags' = renderConnFilters(connFilters')
    /\ conn_data' = connections_data(page_opened, connFilters', connSearch)
    /\ conn_table' = head(conn_data', RowCap)
    /\ conn_more' = more_row(conn_data')
    /\ conn_count' = result_count(page_opened, conn_data')
    /\ UNCHANGED <<pc, postViewVars, navVars, connSearch, fs, EXPORT_DIR, error, envVars, tableVars, postVars,
                   connVars, dormantVars, outVars,
                   companies_data, seniority_data, growth_data, yearly_data,
                   activity_data, day_data, hour_data, clusters_data, positions_data,
                   post_type_data, posts_monthly_data, word_count_data, callVars>>

\* build_dashboard.py:727-743: a click on connApplyFilter with this type
\* selected and this text in the value select or in the text input
connApplyFilter ==
    /\ pc = "report"
    /\ Len(connFilters) < MaxFilters
    /\ \E type \in FilterTypes :
       \E input \in IF type = "position" THEN PositionTexts
                    ELSE select_values(filter_options(page_opened, type)) :
          LET value == IF type = "position" THEN trim(input) ELSE input
          IN  /\ ~(type = "position" /\ value = <<>>)
              /\ ~\E i \in DOMAIN connFilters :
                     connFilters[i].type = type /\ connFilters[i].value = value
              /\ connFilters' = Append(connFilters, [type |-> type, value |-> value])
    /\ filter_tags' = renderConnFilters(connFilters')
    /\ conn_data' = connections_data(page_opened, connFilters', connSearch)
    /\ conn_table' = head(conn_data', RowCap)
    /\ conn_more' = more_row(conn_data')
    /\ conn_count' = result_count(page_opened, conn_data')
    /\ UNCHANGED <<pc, postViewVars, navVars, connSearch, fs, EXPORT_DIR, error, envVars, tableVars, postVars,
                   connVars, dormantVars, outVars,
                   companies_data, seniority_data, growth_data, yearly_data,
                   activity_data, day_data, hour_data, clusters_data, positions_data,
                   post_type_data, posts_monthly_data, word_count_data, callVars>>

\* A slip: the clicked tag is taken away and the others keep their index
RemoveTag_stale ==
    /\ pc = "report"
    /\ \E k \in DOMAIN filter_tags :
          /\ connFilters' = splice1(connFilters, filter_tags[k].idx)
          /\ filter_tags' = splice1(filter_tags, k - 1)
    /\ conn_data' = connections_data(page_opened, connFilters', connSearch)
    /\ conn_table' = head(conn_data', RowCap)
    /\ conn_more' = more_row(conn_data')
    /\ conn_count' = result_count(page_opened, conn_data')
    /\ UNCHANGED <<pc, postViewVars, navVars, connSearch, fs, EXPORT_DIR, error, envVars, tableVars, postVars,
                   connVars, dormantVars, outVars,
                   companies_data, seniority_data, growth_data, yearly_data,
                   activity_data, day_data, hour_data, clusters_data, positions_data,
                   post_type_data, posts_monthly_data, word_count_data, callVars>>

\* build_dashboard.py:761-765: a click on the remove button of a tag
RemoveTag ==
    /\ pc = "report"
    /\ \E k \in DOMAIN filter_tags :
          connFilters' = splice1(connFilters, filter_tags[k].idx)
    /\ filter_tags' = renderConnFilters(connFilters')
    /\ conn_data' = connections_data(page_opened, connFilters', connSearch)
    /\ conn_table' = head(conn_data', RowCap)
    /\ conn_more' = more_row(conn_data')
    /\ conn_count' = result_count(page_opened, conn_data')
    /\ UNCHANGED <<pc, postViewVars, navVars, connSearch, fs, EXPORT_DIR, error, envVars, tableVars, postVars,
                   connVars, dormantVars, outVars,
                   companies_data, seniority_data, growth_data, yearly_data,
                   activity_data, day_data, hour_data, clusters_data, positions_data,
                   post_type_data, posts_monthly_data, word_count_data, callVars>>

\* build_dashboard.py:799: an input event of connSearch
connSearchInput ==
    /\ pc = "report"
    /\ \E q \in SearchTexts :
          /\ q # connSearch
          /\ connSearch' = q
    /\ conn_data' = connections_data(page_opened, connFilters, connSearch')
    /\ conn_table' = head(conn_data', RowCap)
    /\ conn_more' = more_row(conn_data')
    /\ conn_count' = result_count(page_opened, conn_data')
    /\ UNCHANGED <<pc, postViewVars, navVars, connFilters, filter_tags, fs, EXPORT_DIR, error, envVars,
                   tableVars, postVars, connVars, dormantVars, outVars,
                   companies_data, seniority_data, growth_data, yearly_data,
                   activity_data, day_data, hour_data, clusters_data, positions_data,
                   post_type_data, posts_monthly_data, word_count_data, callVars>>

\* the report's state that no event of the page changes
pageVars == <<pc, fs, EXPORT_DIR, error, envVars, tableVars, postVars, connVars,
              dormantVars, outVars, companies_data, seniority_data, growth_data,
              yearly_data, activity_data, day_data, hour_data, clusters_data, positions_data,
              post_type_data, posts_monthly_data, word_count_data, callVars>>

\* the connection view: the variables renderConnections and its events write
connViewVars == <<connFilters, connSearch, filter_tags, conn_data, conn_table,
                  conn_more, conn_count>>

\* build_dashboard.py:651-658: a click on a pill of postTypePills
postPillClick ==
    /\ pc = "report"
    /\ \E k \in DOMAIN postPills :
          /\ postPills' = [i \in DOMAIN postPills |->
                              [type |-> postPills[i].type, active |-> i = k]]
          /\ postTypeFilter' = postPills[k].type
    /\ posts_shown' = posts_filtered(page_opened, postTypeFilter', postSearch)
    /\ post_count' = Len(posts_shown')
    /\ UNCHANGED <<postSearch, connViewVars, navVars, pageVars>>

\* build_dashboard.py:660: an input event of postSearch
postSearchInput ==
    /\ pc = "report"
    /\ \E q \in PostSearchTexts :
          /\ q # postSearch
          /\ postSearch' = q
    /\ posts_shown' = posts_filtered(page_opened, postTypeFilter, postSearch')
    /\ post_count' = Len(posts_shown')
    /\ UNCHANGED <<postTypeFilter, postPills, connViewVars, navVars, pageVars>>

\* A slip: the links and sections that were active stay active
navClick_keep ==
    /\ pc = "report"
    /\ \E a \in DOMAIN nav_links :
          /\ nav_active' = nav_active \cup {nav_links[a]}
          /\ nav_links[a] \in sections
          /\ section_active' = section_active \cup {nav_links[a]}
    /\ UNCHANGED <<connViewVars, postViewVars, pageVars>>

\* build_dashboard.py:517-525: a click on a link of nav
navClick ==
    /\ pc = "report"
    /\ \E a \in DOMAIN nav_links :
          /\ nav_active' = {nav_links[a]}
          /\ nav_links[a] \in sections
          /\ section_active' = {nav_links[a]}
    /\ UNCHANGED <<connViewVars, postViewVars, pageVars>>

NextReport == Next \/ OpenReport \/ connApplyFilter \/ RemoveTag \/ connSearchInput

Grace == Str(<<"G", "r", "a", "c", "e">>)
Hopper == Str(<<"H", "o", "p", "p", "e", "r">>)
Alan == Str(<<"A", "l", "a", "n">>)
Turing == Str(<<"T", "u", "r", "i", "n", "g">>)
Initech == Str(<<"I", "n", "i", "t", "e", "c", "h">>)
VPEngineering == Str(<<"V", "P", " ", "E", "n", "g", "i", "n", "e", "e", "r", "i", "n", "g">>)
Engineer == Str(<<"S", "o", "f", "t", "w", "a", "r", "e", " ", "E", "n", "g", "i", "n", "e", "e", "r">>)

ReportConnections == {
    <<ConnectionRow(Ada, Lovelace, Acme, CEO, T1),
      ConnectionRow(Grace, Hopper, Acme, VPEngineering, T3),
      ConnectionRow(Alan, Turing, NaN, Engineer, NaN),
      ConnectionRow(Ada, Hopper, Initech, Engineer, T2)>>,
    <<ConnectionRow(Alan, Turing, NaN, NaN, NaN)>>}

InitReport ==
    \E c \in ReportConnections :
        InitWith(File(ConnectionsColumns, c), NoFile, NoFile, Unset, Unset)

SpecReport == InitReport /\ [][NextReport]_vars

\* the connection satisfies the filter: equal seniority, equal company,
\* equal connection year, or position containing the text whatever the case
C14_Satisfies(c, f) ==
    \/ f.type = "seniority" /\ c.seniority = f.value
    \/ f.type = "company" /\ c.company = f.value
    \/ f.type = "year" /\ c.year # 0 /\ IntText(c.year) = f.value
    \/ f.type = "position" /\ Contains(lower(f.value), lower(c.position))

\* the connection satisfies the search text: empty, or contained in the
\* name, the company or the position whatever the case
C14_Found(c, q) ==
    \/ q = <<>>
    \/ \E field \in {c.name, c.company, c.position} : Contains(lower(q), lower(field))

\* C14: in the report's connection view, after any sequence of Apply-filter,
\* remove-tag and search-input events, the rows displayed before the 500-row
\* cap are exactly the connections, in their order, that satisfy every
\* active filter (equal seniority, equal company, equal connection year,
\* position containing the text case-insensitively) and the search text
\* (contained in name, company or position, case-insensitively), and the
\* filter bar shows exactly one removable tag per active filter, in the same
\* order.
C14_ConnectionView ==
    pc = "report" =>
        /\ conn_data = SelectSeq(page_opened.allConnections,
                                 LAMBDA c : /\ \A i \in DOMAIN connFilters :
                                                  C14_Satisfies(c, connFilters[i])
                                            /\ C14_Found(c, connSearch))
        /\ conn_table = SubSeq(conn_data, 1, IF Len(conn_data) < 500 THEN Len(conn_data) ELSE 500)
        /\ Len(filter_tags) = Len(connFilters)
        /\ \A i \in DOMAIN connFilters :
              /\ filter_tags[i].value = connFilters[i].value
              /\ filter_tags[i].label =
                    (CASE connFilters[i].type = "seniority" -> "Seniority"
                       [] connFilters[i].type = "company" -> "Company"
                       [] connFilters[i].type = "year" -> "Year"
                       [] connFilters[i].type = "position" -> "Position")
              /\ filter_tags[i].idx = i - 1

\* C14 witness: two filters of different types and a search text are active,
\* and some but not all connections are displayed
C14_Witness ==
    /\ pc = "report"
    /\ Len(connFilters) = 2
    /\ connFilters[1].type = "company"
    /\ connFilters[2].type = "position"
    /\ connSearch = <<"A", "D", "A">>
    /\ Len(filter_tags) = 2
    /\ Len(conn_data) = 1
    /\ Len(page_opened.allConnections) = 4

-----------------------------------------------------------------------------
(* C15: the order of the script's phases and the single final write, over    *)
(* the runs of SpecExport, which end with the write or with either error.    *)

\* a table of the load phase exists
C15_Loaded(df) == df # Unset

\* every table of the load phase exists
C15_AllLoaded ==
    /\ C15_Loaded(conn_df) /\ C15_Loaded(shares_df) /\ C15_Loaded(comments_df)
    /\ C15_Loaded(reactions_df) /\ C15_Loaded(profile_df)

\* no aggregate exists yet
C15_NoneAggregated ==
    /\ companies_data = Unset /\ seniority_data = Unset /\ growth_data = Unset
    /\ yearly_data = Unset /\ activity_data = Unset /\ day_data = Unset
    /\ hour_data = Unset /\ positions_data = Unset /\ word_count_data = Unset
    /\ stats = Unset

\* every aggregate exists
C15_AllAggregated ==
    /\ companies_data # Unset /\ seniority_data # Unset /\ growth_data # Unset
    /\ yearly_data # Unset /\ activity_data # Unset /\ day_data # Unset
    /\ hour_data # Unset /\ positions_data # Unset /\ word_count_data # Unset
    /\ stats # Unset

\* the step loads a table
C15_Loads ==
    \/ conn_df' # conn_df \/ shares_df' # shares_df \/ comments_df' # comments_df
    \/ reactions_df' # reactions_df \/ profile_df' # profile_df

\* the step computes an aggregate
C15_Aggregates ==
    \/ companies_data' # companies_data \/ seniority_data' # seniority_data
    \/ growth_data' # growth_data \/ yearly_data' # yearly_data
    \/ activity_data' # activity_data \/ day_data' # day_data
    \/ hour_data' # hour_data \/ positions_data' # positions_data
    \/ word_count_data' # word_count_data \/ stats' # stats

C15_Step ==
    /\ pc # "written" /\ pc # "raised"
    /\ C15_Loads => C15_NoneAggregated /\ pc' # "enriched" /\ html = Unset /\ output' = output
    /\ pc' = "enriched" =>
          C15_AllLoaded /\ ~C15_Loads /\ C15_NoneAggregated /\ html = Unset /\ output' = output
    /\ C15_Aggregates =>
          C15_AllLoaded /\ ~C15_Loads /\ Reached("enriched") /\ html = Unset /\ output' = output
    /\ html' # html =>
          C15_AllLoaded /\ C15_AllAggregated /\ ~C15_Loads /\ ~C15_Aggregates /\ output' = output
    /\ output' # output =>
          /\ html # Unset /\ html' = html /\ ~C15_Loads /\ ~C15_Aggregates
          /\ pc' \in {"opened", "written"}
    /\ pc' = "raised" => output' = output /\ html' = Unset

C15_State ==
    /\ output.opens <= 1 /\ output.writes <= 1
    /\ pc = "written" =>
          /\ output.opens = 1 /\ output.writes = 1
          /\ output.exists /\ output.content = <<html>>
    /\ pc # "written" => output.writes = 0
    /\ pc \notin {"opened", "written"} =>
          /\ output.opens = 0
          /\ output \in {NoOutput, StaleOutput}

\* C15: a run executes load, enrich, aggregate, render and write in that
\* order (a table is loaded only before any enrichment or aggregate, posts are
\* enriched only after every table is loaded and before any aggregate, an
\* aggregate is computed only after loading and enrichment and before the
\* page is rendered, the page is rendered only after every aggregate, and the
\* output file changes only after the page is rendered); the output file is
\* opened once and written once, by the last steps, after which nothing runs;
\* a run that raises leaves the output file as it was: not created, not
\* truncated, not written.
C15_StrictOrder == []C15_State /\ [][C15_Step]_pc

\* C15 witness: a run found an older output file and has replaced its
\* content by the page in one open and one write
C15_Witness ==
    /\ pc = "written"
    /\ output.opens = 1 /\ output.writes = 1
    /\ output.content = <<html>>
    /\ Len(base_dir) = 2
    /\ stats.total_connections = 1

\* C15 witness of the failing run: the run raised and the older output file
\* is as it was
C15_WitnessRaised ==
    /\ pc = "raised"
    /\ output = StaleOutput
    /\ error.message = "[Errno 2] No such file or directory"

-----------------------------------------------------------------------------
(* SpecTables: export directories with all four tables: shares with and      *)
(* without a date and a link, comments on them, a reaction, connections      *)
(* with and without a date.                                                  *)

MaxTableRows == 2

ShareUrn == Str(<<"u", "r", "n", ":", "l", "i", ":", "s", "h", "a", "r", "e", ":", "1">>)

TableShareRows == {ShareRow(T1, Str(Words(2)), ShareUrn, NaN, NaN),
                   ShareRow(NaN, Str(Words(2)), ShareUrn, NaN, NaN),
                   ShareRow(T2, NaN, NaN, NaN, NaN)}

TableCommentRows == {CommentRow(T2, ShareUrn), CommentRow(NaN, NaN)}

TableConnectionRows == {ConnectionRow(Ada, Lovelace, Acme, CEO, T3),
                        ConnectionRow(Ada, NaN, NaN, NaN, NaN)}

InitTables ==
    \E sh \in TablesOf(TableShareRows, MaxTableRows),
       co \in TablesOf(TableCommentRows, 1),
       c \in TablesOf(TableConnectionRows, MaxTableRows) :
        InitRun(<<ExportDir("base", BasicExport, 1,
                            FilesOf(File(ConnectionsColumns, c),
                                    File(SharesColumns, sh),
                                    File(CommentsColumns, co),
                                    File(ReactionsColumns, <<ReactionRow(T2, Like, ShareUrn)>>),
                                    NoFile, NoFile))>>,
                EarlyClock, NoOutput, Unset, Unset)

SpecTables == InitTables /\ [][Next]_vars

\* the table has none of the working columns, in its columns or in a row
C16_NoWorkingColumn(df) ==
    /\ df.columns \cap {"urn", "Day", "Hour", "Year"} = {}
    /\ \A i \in DOMAIN df.rows : DOMAIN df.rows[i] \cap {"urn", "Day", "Hour", "Year"} = {}

\* C16: no enrichment or aggregation step mutates its input tables: after
\* enrich_posts and after every aggregate, the shares, comments, reactions
\* and connections tables have the rows, columns and values they had directly
\* after loading, and no urn, Day, Hour or Year column.
C16_InputsUntouched ==
    Reached("enriched") =>
        /\ shares_df = load_shares(fs["Shares.csv"])
        /\ comments_df = load_comments(fs["Comments.csv"])
        /\ reactions_df = load_reactions(fs["Reactions.csv"])
        /\ conn_df = load_connections(fs["Connections.csv"])
        /\ C16_NoWorkingColumn(shares_df)
        /\ C16_NoWorkingColumn(comments_df)
        /\ C16_NoWorkingColumn(reactions_df)
        /\ C16_NoWorkingColumn(conn_df)

\* C16 witness: every aggregate is computed from two dated shares, one of
\* them with a comment found through the urn of its link, and a dated
\* connection counted in its year, and the tables have no working column
C16_Witness ==
    /\ pc = "stats"
    /\ Len(shares_df.rows) = 2
    /\ Len(posts_list_full) = 2
    /\ \E i \in DOMAIN posts_list_full : posts_list_full[i].comments = 1
    /\ day_data.values # <<0, 0, 0, 0, 0, 0, 0>>
    /\ yearly_data.values = <<1>>
    /\ "urn" \notin shares_df.columns
    /\ "urn" \notin comments_df.columns
    /\ "Year" \notin conn_df.columns

-----------------------------------------------------------------------------
(* SpecDormant: connection tables of up to MaxDormantRows rows dated before, *)
(* at and after the cutoff or undated, and one table with more dormant       *)
(* connections than the list shows, run at midnight and at noon.             *)

MaxDormantRows == 3

\* 730 days before the clocks of DormantClocks lies 2023-02-28
DormantClocks == {Timestamp(2025, 2, 27, 0), Timestamp(2025, 2, 27, 12)}

T0 == Timestamp(2023, 2, 27, 0)

DormantRows == {ConnectionRow(Ada, Lovelace, Acme, CEO, d) : d \in {NaN, T0, T3, T1}}

\* DormantCap + 2 connections of 2020, the newest first, each of another day
ManyDormant ==
    [i \in 1..(DormantCap + 2) |->
        LET k == DormantCap + 2 - i
        IN  ConnectionRow(Ada, Lovelace, Acme, CEO,
                          Timestamp(2020, 1 + (k \div 28), 1 + (k % 28), 0))]

DormantTables ==
    TablesOf(DormantRows, MaxDormantRows)
    \cup {<<ConnectionRow(Ada, Lovelace, Acme, CEO, T3),
            ConnectionRow(Ada, Lovelace, Acme, CEO, NaN)>> \o ManyDormant}

InitDormant ==
    \E c \in DormantTables, now \in DormantClocks :
        InitRun(<<ExportDir("base", BasicExport, 1,
                            FilesOf(File(ConnectionsColumns, c),
                                    NoFile, NoFile, NoFile, NoFile, NoFile))>>,
                now, NoOutput, Unset, Unset)

SpecDormant == InitDormant /\ [][Next]_vars

\* the connection date is earlier than the run time less 730 days
C17_Older(t) ==
    LET days == DaysFromCivil(t.y, t.m, t.d)
        limit == DaysFromCivil(clock.y, clock.m, clock.d) - 730
    IN  days < limit \/ (days = limit /\ t.H < clock.H)

\* the connections of the table with a date earlier than the cutoff
C17_Selection ==
    SelectSeq(conn_df.rows,
              LAMBDA r : r["Connected On"].kind = "ts" /\ C17_Older(r["Connected On"]))

\* the first timestamp is strictly earlier than the second
C17_EarlierDay(a, b) ==
    \/ a.y < b.y
    \/ a.y = b.y /\ a.m < b.m
    \/ a.y = b.y /\ a.m = b.m /\ a.d < b.d
    \/ a.y = b.y /\ a.m = b.m /\ a.d = b.d /\ a.H < b.H

\* the number of occurrences of the row in the sequence
C17_Count(rows, r) == Cardinality({i \in DOMAIN rows : rows[i] = r})

\* C17: the dormant selection contains exactly the connections whose date is
\* non-null and strictly earlier than the run time less 730 days, oldest
\* first; the dormant list shown is its first 200 entries at most; the
\* dormant count reported is the size of the whole selection.
C17_Dormant ==
    Reached("dormant") =>
        /\ Len(dormant) = Len(C17_Selection)
        /\ \A r \in Range(conn_df.rows) :
              C17_Count(dormant, r) = C17_Count(C17_Selection, r)
        /\ \A i, j \in DOMAIN dormant :
              i < j => ~C17_EarlierDay(dormant[j]["Connected On"], dormant[i]["Connected On"])
        /\ Len(dormant_list) = (IF Len(dormant) < 200 THEN Len(dormant) ELSE 200)
        /\ \A i \in DOMAIN dormant_list :
              /\ dormant_list[i].name = dormant[i]["Full Name"].s
              /\ dormant_list[i].connected = strftime_Ymd(dormant[i]["Connected On"])
        /\ Reached("stats") => stats.dormant_connections = Len(C17_Selection)

\* C17 witness: 202 connections are dormant, 200 of them are listed and 202
\* are counted, while the connection made exactly 730 days before the run
\* and the undated one are not selected
C17_Witness ==
    /\ pc = "stats"
    /\ clock = Timestamp(2025, 2, 27, 0)
    /\ Len(conn_df.rows) = 204
    /\ conn_df.rows[1]["Connected On"] = T3
    /\ conn_df.rows[2]["Connected On"].kind = "nat"
    /\ Len(dormant) = 202
    /\ Len(dormant_list) = 200
    /\ stats.dormant_connections = 202
    /\ dormant_list[1].connected = <<"2", "0", "2", "0", "-", "0", "1", "-", "0", "1">>

-----------------------------------------------------------------------------
(* SpecTop: connection tables of up to MaxTopRows rows over two companies    *)
(* and two positions, and one table of TopN + 2 companies of which the k-th  *)
(* has k connections.                                                        *)

MaxTopRows == 3

TopRows == {ConnectionRow(Ada, Lovelace, c, p, T3) : c \in {Acme, Initech}, p \in {CEO, Engineer}}

\* the number of the company of row i of ManyCompanies: the least k with
\* 1 + ... + k >= i
company_of_row(i) == CHOOSE k \in 1..(TopN + 2) : (k * (k + 1)) \div 2 >= i /\ ((k - 1) * k) \div 2 < i

ManyCompanies ==
    [i \in 1..(((TopN + 2) * (TopN + 3)) \div 2) |->
        ConnectionRow(Ada, Lovelace, Str(<<"C">> \o IntText(company_of_row(i))), CEO, T3)]

InitTop ==
    \E c \in TablesOf(TopRows, MaxTopRows) \cup {ManyCompanies} :
        InitWith(File(ConnectionsColumns, c), NoFile, NoFile, Unset, Unset)

SpecTop == InitTop /\ [][Next]_vars

\* the number of connections with this value in the column
C18_Count(col, v) == Cardinality({i \in DOMAIN conn_df.rows : conn_df.rows[i][col].s = v})

\* the row of the first connection with this value in the column
C18_First(col, v) ==
    CHOOSE i \in DOMAIN conn_df.rows :
        /\ conn_df.rows[i][col].s = v
        /\ \A j \in 1..(i - 1) : conn_df.rows[j][col].s # v

\* at most 20 distinct labels, each with its exact count, in non-increasing
\* order of count, and none omitted that has a larger count than one included
C18_TopOf(agg, col) ==
    /\ Len(agg.labels) <= 20
    /\ Len(agg.values) = Len(agg.labels)
    /\ \A i, j \in DOMAIN agg.labels : i # j => agg.labels[i] # agg.labels[j]
    /\ \A k \in DOMAIN agg.labels :
          agg.values[k] = C18_Count(col, agg.labels[k]) /\ agg.values[k] > 0
    /\ \A i, j \in DOMAIN agg.values : i < j => agg.values[i] >= agg.values[j]
    /\ \A r \in DOMAIN conn_df.rows :
          LET v == conn_df.rows[r][col].s
          IN  v \notin Range(agg.labels) =>
                 /\ Len(agg.labels) = 20
                 /\ \A k \in DOMAIN agg.values : C18_Count(col, v) <= agg.values[k]

\* labels of equal count are in the order of their first rows
C18_TiesInRowOrder(agg, col) ==
    \A i, j \in DOMAIN agg.labels :
        (i < j /\ agg.values[i] = agg.values[j])
            => C18_First(col, agg.labels[i]) < C18_First(col, agg.labels[j])

\* C18: the top-company and top-position aggregates each contain at most 20
\* distinct labels, every value is the exact number of connections with that
\* company (position), values are in non-increasing order, no omitted label
\* has a strictly larger count than an included one, and labels with equal
\* counts appear in the order of their first occurrence in the connection
\* rows.
C18_TopCounts ==
    /\ Reached("companies") =>
          C18_TopOf(companies_data, "Company") /\ C18_TiesInRowOrder(companies_data, "Company")
    /\ Reached("positions") =>
          C18_TopOf(positions_data, "Position") /\ C18_TiesInRowOrder(positions_data, "Position")

-----------------------------------------------------------------------------
(* SpecNormalise: connection tables of up to MaxNormRows rows whose company  *)
(* and position cells are empty (read as NaN), whitespace only, or a text    *)
(* with and without surrounding whitespace.                                  *)

MaxNormRows == 2

PaddedAcme == Str(<<" ", "A", "c", "m", "e", " ">>)

NormRows == {ConnectionRow(Ada, Lovelace, c, p, T3) :
                c \in {NaN, Blank, PaddedAcme, Acme}, p \in {NaN, Blank}}

InitNormalise ==
    \E c \in TablesOf(NormRows, MaxNormRows) :
        InitWith(File(ConnectionsColumns, c), NoFile, NoFile, Unset, Unset)

SpecNormalise == InitNormalise /\ [][Next]_vars

\* the raw cell is null, empty or whitespace only
C19_Void(c) == c.kind # "str" \/ \A i \in DOMAIN c.s : c.s[i] \in {" ", "\t", "\n", "\r"}

\* the text without its leading and trailing whitespace
C19_Trimmed(s) ==
    LET ink == {i \in DOMAIN s : s[i] \notin {" ", "\t", "\n", "\r"}}
    IN  [k \in 1..Cardinality({i \in DOMAIN s : \E a, b \in ink : a <= i /\ i <= b}) |->
            s[k - 1 + CHOOSE a \in ink : \A b \in ink : a <= b]]

\* two raw cells differ only by surrounding whitespace, or are both null,
\* empty or whitespace only
C19_SameKey(c, d) ==
    \/ C19_Void(c) /\ C19_Void(d)
    \/ ~C19_Void(c) /\ ~C19_Void(d) /\ C19_Trimmed(c.s) = C19_Trimmed(d.s)

\* the groups of the column: the sets of rows with the same loaded value
C19_Groups(col) ==
    {{j \in DOMAIN conn_df.rows : conn_df.rows[j][col] = conn_df.rows[i][col]} :
        i \in DOMAIN conn_df.rows}

\* C19: after load_connections every Company, Position, First Name and Last
\* Name value is non-null and has no leading or trailing whitespace, a null
\* raw value is replaced by "Not Specified", and grouping by company or
\* position never puts raw values that differ only by surrounding whitespace,
\* or that are null, empty or whitespace-only, into separate groups.
C19_Normalised ==
    Reached("connections") =>
        LET raw == fs["Connections.csv"].rows
        IN  /\ \A i \in DOMAIN conn_df.rows :
                  \A col \in {"Company", "Position", "First Name", "Last Name"} :
                      LET v == conn_df.rows[i][col]
                      IN  /\ v.kind = "str"
                          /\ v.s # <<>> =>
                                /\ v.s[1] \notin {" ", "\t", "\n", "\r"}
                                /\ v.s[Len(v.s)] \notin {" ", "\t", "\n", "\r"}
                          /\ raw[i][col].kind = "nan" =>
                                v.s = <<"N", "o", "t", " ", "S", "p", "e", "c", "i", "f", "i", "e", "d">>
            /\ \A col \in {"Company", "Position"} :
                  \A i, j \in DOMAIN conn_df.rows :
                      C19_SameKey(raw[i][col], raw[j][col])
                          => \E g \in C19_Groups(col) : i \in g /\ j \in g
            /\ Reached("companies") =>
                  \A i, j \in DOMAIN conn_df.rows :
                      C19_SameKey(raw[i]["Company"], raw[j]["Company"])
                          => \E k \in DOMAIN companies_data.labels :
                                /\ conn_df.rows[i]["Company"].s = companies_data.labels[k]
                                /\ conn_df.rows[j]["Company"].s = companies_data.labels[k]

-----------------------------------------------------------------------------
(* SpecPreview: shares whose commentary has 199, 200, 201 or 204 characters, *)
(* a short commentary, one that ends with three dots, and none.              *)

MaxPreviewRows == 2

\* a word of n letters, a and b in turn
Letters(n) == [i \in 1..n |-> IF i % 2 = 1 THEN "a" ELSE "b"]

PreviewTexts == {NaN, Str(Letters(2)), Str(Letters(4) \o <<".", ".", ".">>),
                 Str(Letters(199)), Str(Letters(200)), Str(Letters(201)),
                 Str(Letters(197) \o <<".", ".", ".">>), Str(Letters(204))}

PreviewRows == {ShareRow(T1, c, NaN, NaN, NaN) : c \in PreviewTexts}

InitPreview ==
    \E sh \in TablesOf(PreviewRows, MaxPreviewRows) :
        InitWith(OneConnection, File(SharesColumns, sh), NoFile, Unset, Unset)

SpecPreview == InitPreview /\ [][NextEnrich]_vars

\* the text ends with the ellipsis marker
C20_EndsWithEllipsis(s) ==
    Len(s) >= 3 /\ s[Len(s) - 2] = "." /\ s[Len(s) - 1] = "." /\ s[Len(s)] = "."

\* the preview is the content of at most 200 characters, or the first 200
\* characters of a longer content followed by the marker; it has at most 203
\* characters
C20_PreviewOf(p) ==
    /\ Len(p.content) <= 200 => p.preview = p.content
    /\ Len(p.content) > 200 =>
          /\ Len(p.preview) = 203
          /\ \A i \in 1..200 : p.preview[i] = p.content[i]
          /\ \A i \in 201..203 : p.preview[i] = "."
    /\ Len(p.preview) <= 203

\* the original statement: the preview ends with the marker exactly when the
\* content was truncated
C20_Original ==
    pc = "enriched" =>
        \A i \in DOMAIN posts_list_full :
            /\ C20_PreviewOf(posts_list_full[i])
            /\ C20_EndsWithEllipsis(posts_list_full[i].preview)
                  <=> Len(posts_list_full[i].content) > 200

\* C20: for every post, preview equals the cleaned content when the content
\* has at most 200 characters, and the first 200 characters of the content
\* followed by "..." when it has more; so the preview never exceeds 203
\* characters, it ends with the ellipsis marker whenever the content was
\* truncated, and a preview that ends with the marker belongs to a truncated
\* content or to a content that itself ends with "...".
C20_Preview ==
    pc = "enriched" =>
        \A i \in DOMAIN posts_list_full :
            LET p == posts_list_full[i]
            IN  /\ C20_PreviewOf(p)
                /\ posts_list[i].preview = p.preview
                /\ Len(p.content) > 200 => C20_EndsWithEllipsis(p.preview)
                /\ C20_EndsWithEllipsis(p.preview) =>
                      Len(p.content) > 200 \/ C20_EndsWithEllipsis(p.content)

\* C20 witness: one post of 201 characters has a preview of 203, and one of
\* 7 characters that ends with three dots is its own preview
C20_Witness ==
    /\ pc = "enriched"
    /\ Len(posts_list_full) = 2
    /\ Len(posts_list_full[1].content) = 201
    /\ Len(posts_list_full[1].preview) = 203
    /\ posts_list_full[1].preview[200] = "b"
    /\ posts_list_full[2].content = <<"a", "b", "a", "b", ".", ".", ".">>
    /\ posts_list_full[2].preview = posts_list_full[2].content

-----------------------------------------------------------------------------
(* SpecClean: shares whose commentary is any text of up to MaxRawLen         *)
(* characters over a double quote, a space and a letter, or is missing.      *)

MaxRawLen == 4

RawTexts == UNION {[1..n -> {"\"", " ", "a"}] : n \in 0..MaxRawLen}

InitClean ==
    \E c \in {NaN} \cup {Str(s) : s \in RawTexts} :
        InitWith(OneConnection, File(SharesColumns, <<ShareRow(T1, c, NaN, NaN, NaN)>>),
                 NoFile, Unset, Unset)

SpecClean == InitClean /\ [][NextEnrich]_vars

\* C21: text cleaning in enrich_posts replaces each doubled quote by a single
\* quote and strips leading and trailing quote characters and whitespace: for
\* every raw commentary, the cleaned content neither starts nor ends with a
\* double-quote character or a whitespace character.
C21_Cleaned ==
    pc = "enriched" =>
        \A i \in DOMAIN posts_list_full :
            LET content == posts_list_full[i].content
            IN  content # <<>> =>
                   /\ content[1] \notin {"\"", " ", "\t", "\n", "\r"}
                   /\ content[Len(content)] \notin {"\"", " ", "\t", "\n", "\r"}


\* ---------------------------------------------------------------------------
\* C22: the 500-row cap of the connection table
\* ---------------------------------------------------------------------------

\* RowCap + 2 connections: one of Initech, RowCap chief executives of Acme,
\* then one engineer of Acme; every connection has a first name of its own
ManyConnections ==
    [i \in 1..(RowCap + 2) |->
        IF i = 1 THEN ConnectionRow(Grace, Hopper, Initech, Engineer, T1)
        ELSE IF i = RowCap + 2 THEN ConnectionRow(Alan, Turing, Acme, Engineer, T3)
        ELSE ConnectionRow(Str(<<"N">> \o IntText(i)), Lovelace, Acme, CEO, T3)]

\* the export holds all of them, or the first RowCap of them
InitCap ==
    \E n \in {RowCap, RowCap + 2} :
        InitWith(File(ConnectionsColumns, SubSeq(ManyConnections, 1, n)),
                 NoFile, NoFile, Unset, Unset)

\* the report's events, with one filter at most at a time
NextCap ==
    \/ Next
    \/ OpenReport
    \/ pc = "report" /\ connFilters = <<>> /\ connApplyFilter
    \/ RemoveTag
    \/ connSearchInput

SpecCap == InitCap /\ [][NextCap]_vars

\* the connections left by the active filters and the search text
C22_Filtered ==
    SelectSeq(page_opened.allConnections,
              LAMBDA c : /\ \A i \in DOMAIN connFilters : C14_Satisfies(c, connFilters[i])
                         /\ C14_Found(c, connSearch))

\* C22: whatever filters and search text are active, the connection table
\* displays at most the first 500 connections of the filtered result, in
\* data order; the row saying how many of how many are shown is present
\* exactly when more than 500 connections are left; and the result counter
\* always gives the full filtered count together with the total number of
\* connections.
C22_Cap ==
    pc = "report" =>
        LET filtered == C22_Filtered
        IN  /\ Len(conn_table) <= 500
            /\ Len(conn_table) <= Len(filtered)
            /\ Len(filtered) <= 500 => Len(conn_table) = Len(filtered)
            /\ Len(filtered) > 500 => Len(conn_table) = 500
            /\ \A i \in DOMAIN conn_table : conn_table[i] = filtered[i]
            /\ (conn_more # None) <=> (Len(filtered) > 500)
            /\ conn_more # None =>
                   conn_more.showing = 500 /\ conn_more.of = Len(filtered)
            /\ conn_count.shown = Len(filtered)
            /\ conn_count.total = Len(conn_df.rows)

\* C22 witnesses: exactly 500 connections are left and all are displayed
\* without the row; 501 are left and 500 are displayed with the row
C22_Witness ==
    /\ pc = "report"
    /\ connFilters # <<>>
    /\ Len(conn_data) = 500
    /\ Len(conn_table) = 500
    /\ conn_more = None

C22_WitnessMore ==
    /\ pc = "report"
    /\ connFilters # <<>>
    /\ Len(conn_data) = 501
    /\ Len(conn_table) = 500
    /\ conn_more # None
    /\ conn_count = [shown |-> 501, total |-> 502]


-----------------------------------------------------------------------------
(* SpecPostView: the post view of the report over shares tables of up to     *)
(* MaxViewRows posts: a text of 201 characters whose last one is a Z, a      *)
(* short text that starts with a Z, a post with media and a repost.          *)

MaxViewRows == 2

ViewRows == {ShareRow(T1, Str(Letters(200) \o <<"Z">>), NaN, NaN, NaN),
             ShareRow(T2, Str(<<"Z", "a", "b", "a">>), NaN, NaN, NaN),
             ShareRow(T3, Str(Letters(2)), NaN, NaN, Str(<<"m">>)),
             ShareRow(T4, NaN, NaN, NaN, NaN)}

InitPostView ==
    \E s \in TablesOf(ViewRows, MaxViewRows) :
        InitWith(OneConnection, File(SharesColumns, s), NoFile, Unset, Unset)

NextPostView == Next \/ OpenReport \/ postPillClick \/ postSearchInput

SpecPostView == InitPostView /\ [][NextPostView]_vars

\* the pills that are active
C23_ActivePills == {k \in DOMAIN postPills : postPills[k].active}

\* the post is of the pill's type; every post is of the type of 'All'
C23_OfType(p, pill) == pill.type = "all" \/ p.type = pill.type

\* C23: in the report's post view, after any sequence of pill clicks and
\* search inputs, exactly one pill is active, the posts displayed are exactly
\* the posts whose type is the active pill's type (every post for the pill
\* 'All') and whose content contains the search text whatever the case, and
\* the counter shows their number.
C23_PostView ==
    pc = "report" =>
        /\ Cardinality(C23_ActivePills) = 1
        /\ \A k \in C23_ActivePills :
              LET expected == SelectSeq(posts_list_full,
                                  LAMBDA p : /\ C23_OfType(p, postPills[k])
                                             /\ Contains(lower(postSearch), lower(p.content)))
              IN  /\ posts_shown = [i \in DOMAIN expected |-> preview_only(expected[i])]
                  /\ post_count = Len(expected)


-----------------------------------------------------------------------------
(* SpecClusters: connection tables where Acme, Initech and the connections   *)
(* without a company each have between ClusterMin - ClusterSpread and        *)
(* ClusterMin + ClusterSpread connections.                                   *)

ClusterSpread == 1

ClusterSizes == (ClusterMin - ClusterSpread)..(ClusterMin + ClusterSpread)

\* a connections of Acme, then i of Initech, then n without a company
ClusterTable(a, i, n) ==
    [k \in 1..(a + i + n) |->
        IF k <= a THEN ConnectionRow(Ada, Lovelace, Acme, CEO, T1)
        ELSE IF k <= a + i THEN ConnectionRow(Grace, Hopper, Initech, Engineer, T3)
        ELSE ConnectionRow(Alan, Turing, NaN, NaN, NaN)]

InitClusters ==
    \E a \in ClusterSizes, i \in ClusterSizes, n \in ClusterSizes :
        InitWith(File(ConnectionsColumns, ClusterTable(a, i, n)), NoFile, NoFile, Unset, Unset)

SpecClusters == InitClusters /\ [][Next]_vars

\* the connections of the company in the loaded table
C24_Connections(c) ==
    Cardinality({i \in DOMAIN conn_df.rows : conn_df.rows[i]["Company"] = Str(c)})

\* the companies of the loaded table
C24_Companies == {conn_df.rows[i]["Company"].s : i \in DOMAIN conn_df.rows}

\* C24: the cluster selection holds exactly the companies of the loaded
\* connections ("Not Specified" is one of them) that have at least 5
\* connections, each once and with its number of connections, and the cluster
\* count of the statistics is the number of companies selected; so a company
\* of exactly 5 connections is a cluster and a company of 4 is not.
C24_Clusters ==
    /\ Reached("positions") =>
          /\ Range(clusters_data.labels) = {c \in C24_Companies : C24_Connections(c) >= 5}
          /\ Len(clusters_data.labels) = Cardinality(Range(clusters_data.labels))
          /\ DOMAIN clusters_data.values = DOMAIN clusters_data.labels
          /\ \A k \in DOMAIN clusters_data.labels :
                clusters_data.values[k] = C24_Connections(clusters_data.labels[k])
    /\ Reached("stats") => stats.clusters_count = Len(clusters_data.labels)
    /\ Reached("rendered") => html.clustersD = clusters_data /\ html.stats = stats

\* C24 witness: Acme has 5 connections and is a cluster, Initech has 4 and is
\* not, and the connections without a company make a cluster of their own
C24_Witness ==
    /\ pc = "written"
    /\ C24_Connections(Acme.s) = 5
    /\ C24_Connections(Initech.s) = 4
    /\ C24_Connections(NotSpecified) = 6
    /\ Range(clusters_data.labels) = {Acme.s, NotSpecified}
    /\ stats.clusters_count = 2


-----------------------------------------------------------------------------
(* SpecDates: exports whose tables have rows with a date that cannot be      *)
(* parsed next to rows with a date, run two years after the earliest date.   *)

MaxDateRows == 2

DateConnectionRows == {ConnectionRow(Ada, Lovelace, Acme, CEO, d) : d \in {Unparsable, T0, T1}}

DateShareRows == {ShareRow(d, Str(Words(2)), NaN, NaN, NaN) : d \in {Unparsable, T1}}

InitDates ==
    \E c \in TablesOf(DateConnectionRows, MaxDateRows),
       sh \in TablesOf(DateShareRows, MaxDateRows),
       dc \in {Unparsable, T2}, dr \in {Unparsable, T2} :
        InitRun(<<ExportDir("base", BasicExport, 1,
                            FilesOf(File(ConnectionsColumns, c),
                                    File(SharesColumns, sh),
                                    File(CommentsColumns, <<CommentRow(dc, ShareUrn)>>),
                                    File(ReactionsColumns, <<ReactionRow(dr, Like, ShareUrn)>>),
                                    NoFile, NoFile))>>,
                Timestamp(2025, 2, 27, 12), NoOutput, Unset, Unset)

\* the run and the report's filters, one filter at most at a time
NextDates ==
    \/ Next
    \/ OpenReport
    \/ pc = "report" /\ connFilters = <<>> /\ connApplyFilter
    \/ RemoveTag

SpecDates == InitDates /\ [][NextDates]_vars

\* the number of rows of the file whose cell of this column is a date
C25_Dated(file, col) ==
    Cardinality({i \in DOMAIN fs[file].rows : fs[file].rows[i][col].kind = "ts"})

\* the table has every row of the file, with the date where the file has one
\* and a null date where it has not
C25_Kept(df, file, col) ==
    /\ Len(df.rows) = Len(fs[file].rows)
    /\ \A i \in DOMAIN df.rows :
          df.rows[i][col] = IF fs[file].rows[i][col].kind = "ts"
                            THEN fs[file].rows[i][col] ELSE NaT

C25_WitnessNoYear ==
    /\ pc = "report"
    /\ C25_Dated("Connections.csv", "Connected On") = 0
    /\ Len(fs["Connections.csv"].rows) = 2
    /\ Len(connFilters) = 1
    /\ connFilters[1].type = "year"
    /\ conn_data = <<>>


\* ---------------------------------------------------------------------------
\* C26 and C27: the filter list of the connection view, over SpecReport
\* ---------------------------------------------------------------------------

\* the text is empty or has whitespace only
C26_Blank(text) == \A i \in DOMAIN text : text[i] \in {" ", "\t", "\n", "\r"}

\* the filter may be in the list: no position filter with a blank text
C26_Valid(f) == f.type = "position" => ~C26_Blank(f.value)

\* no two entries of the list have the same type and value
C26_Distinct(filters) ==
    \A i \in DOMAIN filters, j \in DOMAIN filters :
        i # j => ~(filters[i].type = filters[j].type /\ filters[i].value = filters[j].value)

C26_State ==
    pc = "report" =>
        /\ C26_Distinct(connFilters)
        /\ \A i \in DOMAIN connFilters : C26_Valid(connFilters[i])

\* a step of the report that adds to the list appends one filter that is
\* valid and was not in the list, and a step that leaves the list and the
\* search text as they are leaves the tags and the displayed rows as they are
C26_Step ==
    pc = "report" /\ pc' = "report" =>
        /\ Len(connFilters') > Len(connFilters) =>
              /\ Len(connFilters') = Len(connFilters) + 1
              /\ SubSeq(connFilters', 1, Len(connFilters)) = connFilters
              /\ C26_Valid(connFilters'[Len(connFilters')])
              /\ \A i \in DOMAIN connFilters :
                    ~(connFilters[i].type = connFilters'[Len(connFilters')].type
                      /\ connFilters[i].value = connFilters'[Len(connFilters')].value)
        /\ connFilters' = connFilters /\ connSearch' = connSearch =>
              /\ filter_tags' = filter_tags
              /\ conn_data' = conn_data
              /\ conn_table' = conn_table

\* C26: after any sequence of Apply-filter and remove-tag events the active
\* filter list never has two entries of the same type and value and never
\* has a position filter whose text is empty or whitespace only; an Apply
\* that would add such an entry leaves the list, the tags and the displayed
\* rows as they are.
C26_FilterList == []C26_State /\ [][C26_Step]_vars

\* C26 witness: the position filter ceo, typed with spaces around it, is
\* active, and the Apply button still takes input
C26_Witness ==
    /\ pc = "report"
    /\ connFilters = <<[type |-> "position", value |-> <<"c", "e", "o">>]>>
    /\ Len(filter_tags) = 1
    /\ ENABLED connApplyFilter


\* the tag shows the type and the value of the filter
C27_Displays(tag, f) ==
    /\ tag.value = f.value
    /\ tag.label = (CASE f.type = "seniority" -> "Seniority"
                      [] f.type = "company" -> "Company"
                      [] f.type = "year" -> "Year"
                      [] f.type = "position" -> "Position")

\* the list without its k-th entry, the others in their order
C27_Without(q, k) == [i \in 1..(Len(q) - 1) |-> IF i < k THEN q[i] ELSE q[i + 1]]

\* every tag displays the filter of its place, and the index its remove
\* control carries takes exactly that filter out of the list
C27_State ==
    pc = "report" =>
        /\ Len(filter_tags) = Len(connFilters)
        /\ \A k \in DOMAIN filter_tags :
              /\ C27_Displays(filter_tags[k], connFilters[k])
              /\ splice1(connFilters, filter_tags[k].idx) = C27_Without(connFilters, k)

\* a step of the report that shortens the list takes one filter out of it,
\* leaves the others in their order and leaves the search text as it is
C27_Step ==
    pc = "report" /\ pc' = "report" /\ Len(connFilters') < Len(connFilters) =>
        /\ \E k \in DOMAIN connFilters : connFilters' = C27_Without(connFilters, k)
        /\ connSearch' = connSearch

\* C27: after any sequence of adds and removes, a click on the remove control
\* of a tag removes exactly the filter the tag displays, never another one
\* because of a stale index, leaves the other active filters as they are and
\* in their order, and leaves the search text as it is.
C27_RemoveTag == []C27_State /\ [][C27_Step]_vars

\* C27 witness: two filters and a search text are active, each filter under
\* its tag, and a tag can be removed
C27_Witness ==
    /\ pc = "report"
    /\ Len(connFilters) = 2
    /\ Len(filter_tags) = 2
    /\ connFilters[1].type = "company"
    /\ connFilters[2].type = "position"
    /\ connSearch # <<>>
    /\ ENABLED RemoveTag


-----------------------------------------------------------------------------
(* SpecNav: the navigation of the report of an export with one connection    *)
(* and two posts, among filter, pill and search events.                      *)

InitNav ==
    InitWith(OneConnection,
             File(SharesColumns, <<ShareRow(T1, Str(Words(2)), NaN, NaN, NaN),
                                   ShareRow(T2, NaN, NaN, NaN, NaN)>>),
             NoFile, Unset, Unset)

\* the report's events, with one connection filter at most
NextNav ==
    \/ Next
    \/ OpenReport
    \/ navClick
    \/ pc = "report" /\ connFilters = <<>> /\ connApplyFilter
    \/ connSearchInput
    \/ postPillClick
    \/ postSearchInput

SpecNav == InitNav /\ [][NextNav]_vars

\* one link and one section are active, the section the link names
C28_State ==
    pc = "report" =>
        /\ Cardinality(nav_active) = 1
        /\ Cardinality(section_active) = 1
        /\ section_active = nav_active

\* a step that changes the active link or section leaves the filters, the
\* pill and the search texts as they are
C28_Step ==
    /\ pc = "report"
    /\ pc' = "report"
    /\ nav_active' # nav_active \/ section_active' # section_active
    => /\ connFilters' = connFilters
       /\ filter_tags' = filter_tags
       /\ connSearch' = connSearch
       /\ postTypeFilter' = postTypeFilter
       /\ postPills' = postPills
       /\ postSearch' = postSearch

\* C28: after any sequence of navigation-link clicks, from the initial
\* document on, exactly one navigation link and exactly one section are
\* active, the active section is the one the active link names, and
\* switching tabs changes neither the connection filters nor the post-type
\* pill nor a search text.
C28_Navigation == []C28_State /\ [][C28_Step]_vars

\* C28 witness: the Posts tab is shown while a connection filter, a
\* connection search, the pill of a post type and a post search are active
C28_Witness ==
    /\ pc = "report"
    /\ nav_active = {"posts"}
    /\ section_active = {"posts"}
    /\ connFilters # <<>>
    /\ connSearch # <<>>
    /\ postTypeFilter = "Repost"
    /\ postSearch # <<>>


\* ---------------------------------------------------------------------------
\* C29: the post totals of the report, over SpecDates
\* ---------------------------------------------------------------------------

\* C29: the post totals of the report agree for every export: the figure
\* 'Posts Published' of the overview equals the figure 'Total Posts' of the
\* Posts tab, which equals the number of embedded posts, the sum of the
\* post-type distribution, the sum of the word-count buckets and the sum of
\* the posts-per-month series.
C29_PostTotals ==
    Reached("rendered") =>
        /\ html.stats.total_posts = html.total_posts_card
        /\ html.total_posts_card = Len(html.allPosts)
        /\ Len(html.allPosts) = SumSeq(html.postTypeD.values)
        /\ SumSeq(html.postTypeD.values) = SumSeq(html.wordCountD.values)
        /\ SumSeq(html.wordCountD.values) = SumSeq(html.postsMonthlyD.values)


-----------------------------------------------------------------------------
(* Conversations: build_conversations, called with the table load_messages   *)
(* returns.                                                                  *)

\* the place of a character in the order of the code points
ord(c) == CHOOSE i \in DOMAIN Ascii : Ascii[i] = c

\* a < b for two texts, as Python compares str
text_less(a, b) ==
    \E k \in 1..(Len(a) + 1) :
        /\ k <= Len(b)
        /\ SubSeq(a, 1, k - 1) = SubSeq(b, 1, k - 1)
        /\ k = Len(a) + 1 \/ ord(a[k]) < ord(b[k])

\* sorted(S) for a set of texts
sorted(S) ==
    [r \in 1..Cardinality(S) |->
        CHOOSE x \in S : Cardinality({y \in S : text_less(y, x)}) = r - 1]

RECURSIVE join(_, _)
\* sep.join(q)
join(sep, q) ==
    IF q = <<>> THEN <<>>
    ELSE IF Len(q) = 1 THEN q[1]
    ELSE q[1] \o sep \o join(sep, Tail(q))

RECURSIVE strip_tags_from(_, _)
\* re.sub(r"<[^>]+>", " ", s) from place i on: a < with at least one
\* character before the next > is a tag, and a tag becomes a space
strip_tags_from(s, i) ==
    IF i > Len(s) THEN <<>>
    ELSE LET closes == {j \in (i + 1)..Len(s) : s[j] = ">"}
             j == IF closes = {} THEN 0
                  ELSE CHOOSE x \in closes : \A y \in closes : x <= y
         IN  IF s[i] = "<" /\ j >= i + 2
             THEN <<" ">> \o strip_tags_from(s, j + 1)
             ELSE <<s[i]>> \o strip_tags_from(s, i + 1)

\* linkedin_data.py:216
strip_tags(s) == strip_tags_from(s, 1)

\* the character references html.unescape replaces, those of the messages
\* of the model
references == {[ref |-> <<"&", "a", "m", "p", ";">>, char |-> "&"],
               [ref |-> <<"&", "l", "t", ";">>, char |-> "<"],
               [ref |-> <<"&", "g", "t", ";">>, char |-> ">"]}

RECURSIVE unescape_from(_, _)
\* html.unescape(s) from place i on, in one pass from left to right
unescape_from(s, i) ==
    IF i > Len(s) THEN <<>>
    ELSE IF \E e \in references : HasAt(s, i, e.ref)
    THEN LET e == CHOOSE e \in references : HasAt(s, i, e.ref)
         IN  <<e.char>> \o unescape_from(s, i + Len(e.ref))
    ELSE <<s[i]>> \o unescape_from(s, i + 1)

\* linkedin_data.py:217-221
unescape(s) == unescape_from(s, 1)

\* linkedin_data.py:222: re.sub(r"\s+", " ", content).strip()
collapse_whitespace(s) ==
    LET keep == SelectSeq(Positions(s),
                          LAMBDA i : s[i] \notin Whitespace
                                     \/ i = 1 \/ s[i - 1] \notin Whitespace)
    IN  strip([k \in DOMAIN keep |->
                  IF s[keep[k]] \in Whitespace THEN " " ELSE s[keep[k]]])

\* linkedin_data.py:214-222: the content of a message without tags,
\* references and runs of whitespace
clean_content(m) ==
    collapse_whitespace(unescape(strip_tags(str(get_or_empty(m, "CONTENT")))))

\* the characters of last_content before the ellipsis
ContentCap == 500

\* linkedin_data.py:230
last_content_of(content) ==
    head(content, ContentCap)
    \o (IF Len(content) > ContentCap THEN <<".", ".", ".">> ELSE <<>>)

\* strftime("%Y-%m-%d %H:%M") of a timestamp of a whole hour
strftime_YmdHM(t) == strftime_Ymd(t) \o <<" ">> \o Pad(t.H, 2) \o <<":", "0", "0">>

\* linkedin_data.py:200-207: the senders and the receivers of the messages
participants_of(msgs) ==
    LET names == UNION {{str(get_or_empty(msgs[i], "FROM")),
                         str(get_or_empty(msgs[i], "TO"))} : i \in DOMAIN msgs}
    IN  {n \in names : n # <<>> /\ n # <<"n", "a", "n">>}

Unknown == <<"U", "n", "k", "n", "o", "w", "n">>

\* linkedin_data.py:208-209
other_of(msgs, owner) ==
    LET participants == participants_of(msgs) \ {owner}
    IN  IF participants # {} THEN join(<<",", " ">>, sorted(participants)) ELSE Unknown

\* linkedin_data.py:198: msgs.sort_values("DATE", ascending=True): the dated
\* messages by date, those of equal date in an order the sort decides, then
\* the messages without a date in the order of the table
sort_by_DATE(msgs) ==
    LET dated == SelectSeq(Positions(msgs), LAMBDA i : notna(msgs[i]["DATE"]))
        undated == SelectSeq(Positions(msgs), LAMBDA i : ~notna(msgs[i]["DATE"]))
    IN  {[r \in 1..Len(msgs) |->
             IF r <= Len(dated) THEN msgs[dated[p[r]]]
             ELSE msgs[undated[r - Len(dated)]]] :
            p \in argsort([k \in DOMAIN dated |-> hours_of(msgs[dated[k]]["DATE"])])}

\* linkedin_data.py:211-232: the entry of a conversation, from its sorted
\* messages
conversation_of(msgs, owner) ==
    LET last_msg == msgs[Len(msgs)]
        last_from == str(get_or_empty(last_msg, "FROM"))
        last_date == last_msg["DATE"]
    IN  [other |-> other_of(msgs, owner),
         msg_count |-> Len(msgs),
         last_date |-> IF notna(last_date) THEN strftime_YmdHM(last_date) ELSE <<>>,
         last_from |-> last_from,
         last_content |-> last_content_of(clean_content(last_msg)),
         awaiting_your_reply |-> last_from # owner]

\* linkedin_data.py:197: the keys of groupby("CONVERSATION ID"), ascending;
\* a message without a conversation ID is in no group
conversation_ids(df) ==
    sorted({df.rows[i]["CONVERSATION ID"].s :
               i \in {j \in DOMAIN df.rows : notna(df.rows[j]["CONVERSATION ID"])}})

\* linkedin_data.py:234: convos.sort(key=last_date, reverse=True), a stable
\* sort: entries of equal last_date stay in their order
sort_last_date(q) ==
    LET before(i, j) == \/ text_less(q[j].last_date, q[i].last_date)
                        \/ q[i].last_date = q[j].last_date /\ i < j
    IN  [r \in DOMAIN q |->
            q[CHOOSE i \in DOMAIN q :
                 Cardinality({j \in DOMAIN q : before(j, i)}) = r - 1]]

\* linkedin_data.py:191-235: the lists build_conversations can return
build_conversations(df, owner) ==
    IF df.rows = <<>> \/ df.columns = {} THEN {<<>>}
    ELSE LET ids == conversation_ids(df)
             group(id) == SelectSeq(df.rows,
                              LAMBDA r : /\ notna(r["CONVERSATION ID"])
                                         /\ r["CONVERSATION ID"].s = id)
             orders == UNION {sort_by_DATE(group(ids[k])) : k \in DOMAIN ids}
         IN  {sort_last_date([k \in DOMAIN ids |-> conversation_of(f[k], owner)]) :
                 f \in {g \in [DOMAIN ids -> orders] :
                           \A k \in DOMAIN ids : g[k] \in sort_by_DATE(group(ids[k]))}}

\* the owners build_conversations is called with
Owners == {Ada.s, Alan.s}

\* build_conversations(messages_df, owner_name)
BuildConversationsCall ==
    /\ messages_df # Unset
    /\ owner_name = Unset
    /\ \E owner \in Owners :
          /\ owner_name' = Str(owner)
          /\ convos' \in build_conversations(messages_df, owner)
    /\ UNCHANGED <<pipelineVars, position, seniority, url, urn, urn_quoted,
                   urn_again, messages_df>>

(* SpecConversations: message tables of up to MaxMessages messages of two    *)
(* conversations, between Ada and Grace or from nobody, dated or not.        *)

MaxMessages == 2

Message(id, from, to, date, content) ==
    [c \in MessagesColumns |->
        CASE c = "CONVERSATION ID" -> id
          [] c = "FROM" -> from
          [] c = "TO" -> to
          [] c = "DATE" -> date
          [] c = "CONTENT" -> content]

\* the content of the messages, by their date
ContentOn(d) ==
    IF d = T1 THEN Str(<<"H", "i">>)
    ELSE IF d = T2
    THEN Str(<<"<", "b", ">", "H", "i", "<", "/", "b", ">", " ", "&", "a", "m", "p", ";",
               " ", " ", "y", "o", "u">>)
    ELSE Str(<<"o", "l", "d">>)

MessageRows ==
    {Message(Str(<<id>>), ft[1], ft[2], d, ContentOn(d)) :
        id \in {"1", "2"},
        ft \in {<<Ada, Grace>>, <<Grace, Ada>>, <<NaN, Ada>>},
        d \in {T1, T2, Unparsable}}

InitConversations ==
    \E me \in {NoFile} \cup {File(MessagesColumns, t) : t \in TablesOf(MessageRows, MaxMessages)} :
        InitRun(<<ExportDir("base", BasicExport, 1,
                            FilesOf(OneConnection, NoFile, NoFile, NoFile, NoFile, me))>>,
                EarlyClock, NoOutput, Unset, Unset)

NextConversations == FindExportDir \/ LoadMessagesCall \/ BuildConversationsCall

SpecConversations == InitConversations /\ [][NextConversations]_vars

\* the messages of the conversation
C30_Messages(id) ==
    SelectSeq(messages_df.rows, LAMBDA r : r["CONVERSATION ID"] = Str(id))

\* the hour of the latest timestamp of the conversation, -1 without any
C30_Latest(id) ==
    LET msgs == C30_Messages(id)
        hours == {hours_of(msgs[i]["DATE"]) : i \in {j \in DOMAIN msgs : msgs[j]["DATE"].kind = "ts"}}
    IN  IF hours = {} THEN 0 - 1 ELSE CHOOSE h \in hours : \A x \in hours : x <= h

\* the messages of the conversation with its latest timestamp; every
\* message of a conversation without a timestamp
C30_LatestMessages(id) ==
    LET msgs == C30_Messages(id)
    IN  {msgs[i] : i \in {j \in DOMAIN msgs :
                            \/ C30_Latest(id) = 0 - 1
                            \/ /\ msgs[j]["DATE"].kind = "ts"
                               /\ hours_of(msgs[j]["DATE"]) = C30_Latest(id)}}

\* the names in the conversation other than the owner's
C30_Others(id) ==
    LET msgs == C30_Messages(id)
    IN  {n \in {Ada.s, Grace.s} :
            /\ n # owner_name.s
            /\ \E i \in DOMAIN msgs, c \in {"FROM", "TO"} : msgs[i][c] = Str(n)}

\* the entry describes the conversation
C30_Entry(e, id) ==
    /\ e.msg_count = Len(C30_Messages(id))
    /\ \E m \in C30_LatestMessages(id) :
          /\ e.last_from = str(m["FROM"])
          /\ e.last_date = (IF m["DATE"].kind = "ts" THEN strftime_YmdHM(m["DATE"]) ELSE <<>>)
          /\ e.last_content = last_content_of(clean_content(m))
          /\ e.awaiting_your_reply = (str(m["FROM"]) # owner_name.s)
    /\ ~Contains(owner_name.s, e.other)
    /\ \A n \in C30_Others(id) : Contains(n, e.other)
    /\ C30_Others(id) = {} => e.other = <<"U", "n", "k", "n", "o", "w", "n">>

\* C30: build_conversations returns [] for an empty message table and
\* otherwise one entry per conversation ID, whose msg_count is the number of
\* messages of that conversation; last_from, last_date and last_content of
\* an entry come from the message with the latest timestamp of the
\* conversation, awaiting_your_reply is true exactly when the sender of that
\* message is not the owner, the owner is never listed among the other
\* participants (Unknown when there is none), and the entries are ordered
\* most-recent conversation first.
C30_Conversations ==
    owner_name # Unset =>
        LET ids == {messages_df.rows[i]["CONVERSATION ID"].s : i \in DOMAIN messages_df.rows}
        IN  /\ messages_df.rows = <<>> => convos = <<>>
            /\ Len(convos) = Cardinality(ids)
            /\ \E b \in [DOMAIN convos -> ids] :
                  /\ \A k \in DOMAIN convos, l \in DOMAIN convos : k # l => b[k] # b[l]
                  /\ \A k \in DOMAIN convos : C30_Entry(convos[k], b[k])
                  /\ \A k \in DOMAIN convos, l \in DOMAIN convos :
                        k < l => C30_Latest(b[k]) >= C30_Latest(b[l])

=============================================================================
